---- MODULE Spec2Model ----
(***************************************************************************)
(* A model of nativefire (clix-so/nativefire): identifier generation and   *)
(* resolution, platform detection, app registration against the Firebase   *)
(* registry, and the source mutators of the Android and iOS platforms.     *)
(*                                                                         *)
(* Strings.  A Go string is modelled as a sequence of atoms (short TLA+    *)
(* strings).  Every literal the code searches for or inserts is written as *)
(* a sequence of atoms cut so that the substring relations between the     *)
(* literals are kept: "import FirebaseCore" is <<"import Firebase","Core">>*)
(* so that strings.Contains(s, "import Firebase") is true of it, exactly   *)
(* as in Go.  The characters "-" and "." of identifiers are atoms of their *)
(* own.                                                                    *)
(***************************************************************************)
EXTENDS Integers, Sequences, FiniteSets, TLC

VARIABLES
    projectID,   \* the Firebase project id (Config.ProjectID)
    genPkg,      \* generator: result of generateDefaultPackageName, or NotRun
    genBundle,   \* generator: result of generateDefaultBundleID, or NotRun
    fs,          \* the project directory: path |-> content, for the paths present
    detected,    \* detection: what DetectPlatform returned, or NotDetectedYet
    config,      \* the Config the client works on, or NoConfig
    resolved,    \* resolution: the identifiers the client computed, or NotResolved
    flags,       \* registration: the Config runConfigure builds from the flags
    registry,    \* registration: the apps of the Firebase project, in listing order
    log,         \* registration: what each RegisterApp call did, oldest first
    targetPlatform,      \* mutation: the platform whose AddInitializationCode runs
    response,    \* mutation: what the user answers the setup prompts with
    snaps,       \* mutation: the project directory at the start and after each run
    results,     \* mutation: what each AddInitializationCode call returned
    printed,     \* mutation: what the dependency patch of each call printed
    unwritable,  \* mutation: the paths os.WriteFile fails on (permission denied)
    spinner,     \* spinner: the fields active and stopChan of the Spinner
    callers,     \* spinner: where each calling thread is, and the calls it has left
    routines,    \* spinner: where each animation goroutine is
    screen,      \* spinner: what was printed, and when
    loader,      \* spinner: where ShowLoader is, and what its callback returned
    args,        \* configure: the --platform and --auto-detect flags
    backend,     \* configure: the state of the Firebase CLI and its project listing
    pc,          \* configure: the stage runConfigure is about to run
    trace,       \* configure: the stages run so far, each with the error it returned
    runErr,      \* configure: what runConfigure returned, NotRun while it runs
    tmp,         \* configure: the temporary directory, file name |-> content
    artifact     \* configure: config.ConfigFile, the name of the downloaded file

genVars == <<genPkg, genBundle>>
detVars == <<detected>>
resVars == <<config, resolved>>
regVars == <<flags, registry, log>>
mutVars == <<targetPlatform, response, snaps, results, printed, unwritable>>
cfgVars == <<args, backend, pc, trace, runErr, tmp, artifact>>
spinVars == <<spinner, callers, routines, screen, loader>>
vars == <<projectID, fs, genVars, detVars, resVars, regVars, mutVars, cfgVars, spinVars>>

\* the value of a result that has not been computed yet
NotRun == <<"<not run>">>

(***************************************************************************)
(* Go's strings package over atom sequences.                               *)
(***************************************************************************)
\* strings.Index: the 0-based offset of the first occurrence of p in s, -1 if none
Index(s, p) ==
    LET hits == {i \in 0..(Len(s) - Len(p)) : SubSeq(s, i + 1, i + Len(p)) = p}
    IN  IF hits = {} THEN -1 ELSE CHOOSE i \in hits : \A j \in hits : i <= j

\* strings.LastIndex
LastIndex(s, p) ==
    LET hits == {i \in 0..(Len(s) - Len(p)) : SubSeq(s, i + 1, i + Len(p)) = p}
    IN  IF hits = {} THEN -1 ELSE CHOOSE i \in hits : \A j \in hits : i >= j

\* strings.Contains
Contains(s, p) == Index(s, p) # -1

\* s[:i] ++ t ++ s[i:], the slice expression the code uses to insert at an offset
InsertAt(s, i, t) == SubSeq(s, 1, i) \o t \o SubSeq(s, i + 1, Len(s))

\* strings.Replace(s, old, new, 1)
Replace1(s, old, new) ==
    LET i == Index(s, old)
    IN  IF i = -1 THEN s
        ELSE SubSeq(s, 1, i) \o new \o SubSeq(s, i + Len(old) + 1, Len(s))

\* strings.ReplaceAll(s, old, new) for a one-atom old and new
ReplaceAllAtom(s, old, new) == [i \in 1..Len(s) |-> IF s[i] = old THEN new ELSE s[i]]

\* strings.HasPrefix, strings.HasSuffix, strings.TrimSuffix
HasPrefix(s, p) == Len(p) <= Len(s) /\ SubSeq(s, 1, Len(p)) = p
HasSuffix(s, p) == Len(p) <= Len(s) /\ SubSeq(s, Len(s) - Len(p) + 1, Len(s)) = p
TrimSuffix(s, p) == IF HasSuffix(s, p) THEN SubSeq(s, 1, Len(s) - Len(p)) ELSE s

\* the atoms that are white space
NL == "\n"
WhiteSpace == {" ", "    ", "        ", "\t", "\n"}

\* strings.Trim(s, cutset) for a cutset given as a set of atoms
RECURSIVE TrimLeft(_, _)
TrimLeft(s, cut) ==
    IF s # <<>> /\ Head(s) \in cut THEN TrimLeft(Tail(s), cut) ELSE s
RECURSIVE TrimRight(_, _)
TrimRight(s, cut) ==
    IF s # <<>> /\ s[Len(s)] \in cut THEN TrimRight(SubSeq(s, 1, Len(s) - 1), cut) ELSE s
Trim(s, cut) == TrimRight(TrimLeft(s, cut), cut)

\* strings.TrimSpace
TrimSpace(s) == Trim(s, WhiteSpace)

\* strings.Split(s, "\n"): the lines of s
RECURSIVE Split(_)
Split(s) ==
    LET i == Index(s, <<NL>>)
    IN  IF i = -1 THEN <<s>>
        ELSE <<SubSeq(s, 1, i)>> \o Split(SubSeq(s, i + 2, Len(s)))

\* strings.Join(lines, "\n")
RECURSIVE Join(_)
Join(lines) ==
    IF lines = <<>> THEN <<>>
    ELSE IF Len(lines) = 1 THEN lines[1]
    ELSE lines[1] \o <<NL>> \o Join(Tail(lines))

(***************************************************************************)
(* The project directory.  A path is the sequence of its names; fs maps    *)
(* the paths that are present to their content.  WalkOrder lists every     *)
(* path of the model in the order filepath.Walk visits them (the names of  *)
(* a directory sorted bytewise, depth first).                              *)
(***************************************************************************)
WalkOrder ==
    << <<".swiftpm">>,
       <<"AppDelegate.h">>,
       <<"AppDelegate.m">>,
       <<"AppDelegate.swift">>,
       <<"CMakeLists.txt">>,
       <<"ContentView.swift">>,
       <<"Info.plist">>,
       <<"Makefile">>,
       <<"MyApp.sln">>,
       <<"MyApp.vcxproj">>,
       <<"MyApp.xcodeproj">>,
       <<"MyApp.xcodeproj", "project.pbxproj">>,
       <<"MyApp.xcworkspace">>,
       <<"MyAppApp.swift">>,
       <<"Package.swift">>,
       <<"Podfile">>,
       <<"Runner">>,
       <<"Runner", "Info.plist">>,
       <<"android">>,
       <<"android", "app">>,
       <<"android", "app", "build.gradle">>,
       <<"android", "app", "src">>,
       <<"android", "app", "src", "main">>,
       <<"android", "app", "src", "main", "AndroidManifest.xml">>,
       <<"android", "build.gradle">>,
       <<"app">>,
       <<"app", "build.gradle">>,
       <<"app", "src">>,
       <<"app", "src", "main">>,
       <<"app", "src", "main", "AndroidManifest.xml">>,
       <<"app", "src", "main", "java">>,
       <<"app", "src", "main", "java", "MainActivity.java">>,
       <<"app", "src", "main", "java", "MainActivity.kt">>,
       <<"build.gradle">>,
       <<"gradlew">>,
       <<"ios">>,
       <<"ios", "AppDelegate.h">>,
       <<"ios", "AppDelegate.m">>,
       <<"ios", "AppDelegate.swift">>,
       <<"ios", "ContentView.swift">>,
       <<"ios", "MyApp.xcodeproj">>,
       <<"ios", "MyApp.xcodeproj", "project.pbxproj">>,
       <<"ios", "MyAppApp.swift">>,
       <<"ios", "Podfile">>,
       <<"ios", "Runner">>,
       <<"ios", "Runner", "Info.plist">>,
       <<"linux">>,
       <<"macos">>,
       <<"main.swift">>,
       <<"settings.gradle">>,
       <<"src">>,
       <<"src", "main">>,
       <<"src", "main", "AndroidManifest.xml">>,
       <<"windows">> >>

\* the paths of WalkOrder that are directories
Dirs ==
    { <<".swiftpm">>,
      <<"MyApp.xcodeproj">>,
      <<"MyApp.xcworkspace">>,
      <<"Runner">>,
      <<"android">>,
      <<"android", "app">>,
      <<"android", "app", "src">>,
      <<"android", "app", "src", "main">>,
      <<"app">>,
      <<"app", "src">>,
      <<"app", "src", "main">>,
      <<"app", "src", "main", "java">>,
      <<"ios">>,
      <<"ios", "MyApp.xcodeproj">>,
      <<"ios", "Runner">>,
      <<"linux">>,
      <<"macos">>,
      <<"src">>,
      <<"src", "main">>,
      <<"windows">> }

\* filepath.Match(pattern, name) for the patterns the code uses, over the names
\* of WalkOrder
GlobTable ==
    "MainActivity.java" :> {"MainActivity.java"} @@
    "MainActivity.kt" :> {"MainActivity.kt"} @@
    "*.xcodeproj" :> {"MyApp.xcodeproj"} @@
    "*.xcworkspace" :> {"MyApp.xcworkspace"} @@
    "AppDelegate.swift" :> {"AppDelegate.swift"} @@
    "AppDelegate.m" :> {"AppDelegate.m"} @@
    "*.swift" :> {"AppDelegate.swift", "ContentView.swift", "MyAppApp.swift", "Package.swift", "main.swift"} @@
    "*.m" :> {"AppDelegate.m"} @@
    "*.h" :> {"AppDelegate.h"} @@
    "*App.swift" :> {"MyAppApp.swift"} @@
    "main.swift" :> {"main.swift"} @@
    "*.vcxproj" :> {"MyApp.vcxproj"} @@
    "*.sln" :> {"MyApp.sln"} @@
    "Makefile" :> {"Makefile"}

\* strings.Contains(name, sub) for the substrings the code looks for in a path
SubstringTable ==
    ".java" :> {"MainActivity.java"} @@
    ".kt" :> {"MainActivity.kt"} @@
    ".swift" :> {".swiftpm", "AppDelegate.swift", "ContentView.swift", "MyAppApp.swift", "Package.swift", "main.swift"} @@
    ".m" :> {"AppDelegate.m"}

\* the content of a directory entry
DirEntry == <<"<dir>">>
\* an empty regular file
EmptyFile == <<>>

Universe == {WalkOrder[i] : i \in 1..Len(WalkOrder)}
Parent(p) == SubSeq(p, 1, Len(p) - 1)
Base(p) == p[Len(p)]
IsUnder(p, d) == Len(d) < Len(p) /\ SubSeq(p, 1, Len(d)) = d

\* os.Stat succeeds: the path is present, or it is a directory on the way to one
Exists(f, p) == p \in DOMAIN f \/ \E q \in DOMAIN f : IsUnder(q, p)

\* fileExists of the platform package
fileExists(f, p) == Exists(f, p)

Match(pattern, name) == name \in GlobTable[pattern]
PathContains(p, sub) == \E i \in 1..Len(p) : p[i] \in SubstringTable[sub]

\* the result of findFile when nothing matched
NoPath == <<>>

\* The walk of findFile from entry i on: skipped holds the directories the
\* callback answered filepath.SkipDir for (a matched directory itself, or the
\* directory of a matched file), result the last path assigned.
RECURSIVE findFileFrom(_, _, _, _, _)
findFileFrom(f, pattern, i, skipped, result) ==
    IF i > Len(WalkOrder) THEN result
    ELSE LET p == WalkOrder[i]
         IN  IF ~Exists(f, p) \/ (\E d \in skipped : d = p \/ IsUnder(p, d))
             THEN findFileFrom(f, pattern, i + 1, skipped, result)
             ELSE IF Match(pattern, Base(p))
             THEN findFileFrom(f, pattern, i + 1,
                               skipped \cup {IF p \in Dirs THEN p ELSE Parent(p)}, p)
             ELSE findFileFrom(f, pattern, i + 1, skipped, result)

\* findFile(".", pattern)
findFile(f, pattern) == findFileFrom(f, pattern, 1, {}, NoPath)

(***************************************************************************)
(* Platform detection (platform.go and the per-platform Detect methods).   *)
(***************************************************************************)
AndroidDetect(f) ==
    \/ fileExists(f, <<"build.gradle">>)
    \/ fileExists(f, <<"app", "build.gradle">>)
    \/ fileExists(f, <<"android", "build.gradle">>)
    \/ fileExists(f, <<"settings.gradle">>)

IOSDetect(f) ==
    \/ fileExists(f, <<"ios">>)
    \/ findFile(f, "*.xcodeproj") # NoPath
    \/ findFile(f, "*.xcworkspace") # NoPath
    \/ fileExists(f, <<"Podfile">>)

MacOSDetect(f) ==
    \/ fileExists(f, <<"macos">>)
    \/ (findFile(f, "*.xcodeproj") # NoPath /\ fileExists(f, <<"Podfile">>))
    \/ findFile(f, "main.swift") # NoPath

WindowsDetect(f) ==
    \/ fileExists(f, <<"windows">>)
    \/ findFile(f, "*.vcxproj") # NoPath
    \/ findFile(f, "*.sln") # NoPath
    \/ fileExists(f, <<"CMakeLists.txt">>)

LinuxDetect(f) ==
    \/ fileExists(f, <<"linux">>)
    \/ fileExists(f, <<"CMakeLists.txt">>)
    \/ findFile(f, "Makefile") # NoPath

Detect(name, f) ==
    CASE name = "Android" -> AndroidDetect(f)
      [] name = "iOS" -> IOSDetect(f)
      [] name = "macOS" -> MacOSDetect(f)
      [] name = "Windows" -> WindowsDetect(f)
      [] name = "Linux" -> LinuxDetect(f)

\* the platforms slice of DetectPlatform, in its order
Platforms == <<"Android", "iOS", "macOS", "Windows", "Linux">>
\* a detector list that probes Linux before Windows
PlatformNames == {Platforms[i] : i \in 1..Len(Platforms)}
Platforms_LinuxFirst == <<"Android", "iOS", "macOS", "Linux", "Windows">>

NoPlatformError == "no supported platform detected in current directory"
NotDetectedYet == "<not run>"

\* the loop of DetectPlatform over a detector list
RECURSIVE detectFrom(_, _, _)
detectFrom(list, i, f) ==
    IF i > Len(list) THEN NoPlatformError
    ELSE IF Detect(list[i], f) THEN list[i]
    ELSE detectFrom(list, i + 1, f)

\* DetectPlatform over the detector list that probes Linux before Windows
DetectPlatform_LinuxFirst(f) == detectFrom(Platforms_LinuxFirst, 1, f)

DetectPlatform(f) == detectFrom(Platforms, 1, f)

(***************************************************************************)
(* Identifier generation (firebase.go).                                    *)
(***************************************************************************)
Hyphen == <<"-">>
Period == <<".">>
ComPrefix == <<"com", ".">>
ComFirebasePrefix == <<"com", ".", "firebase", ".">>

generateDefaultPackageName(id) ==
    LET sanitized == ReplaceAllAtom(id, "-", ".")
    IN  IF ~Contains(sanitized, Period) THEN ComFirebasePrefix \o sanitized
        ELSE ComPrefix \o sanitized

\* a generator that forgets the "no period" case
generateDefaultBundleID_NoDomain(id) == ComPrefix \o ReplaceAllAtom(id, "-", ".")

generateDefaultBundleID(id) ==
    LET sanitized == ReplaceAllAtom(id, "-", ".")
    IN  IF ~Contains(sanitized, Period) THEN ComFirebasePrefix \o sanitized
        ELSE ComPrefix \o sanitized

(***************************************************************************)
(* Identifier detection from project files (firebase.go).                  *)
(***************************************************************************)
Quote == <<"\"">>

\* os.ReadFile: the content, or a failure for a missing path or a directory
ReadOK(f, p) == p \in DOMAIN f /\ p \notin Dirs

\* the loop of extractPackageNameFromBuildGradle over the lines
RECURSIVE applicationIdIn(_)
applicationIdIn(lines) ==
    IF lines = <<>> THEN <<>>
    ELSE LET line == TrimSpace(Head(lines))
             idx == Index(line, Quote)
             remaining == SubSeq(line, idx + 2, Len(line))
             idx2 == Index(remaining, Quote)
         IN  IF Contains(line, <<"applicationId">>) /\ idx # -1 /\ idx2 # -1
             THEN SubSeq(remaining, 1, idx2)
             ELSE applicationIdIn(Tail(lines))

extractPackageNameFromBuildGradle(f, p) ==
    IF ~ReadOK(f, p) THEN <<>> ELSE applicationIdIn(Split(f[p]))

extractPackageNameFromManifest(f, p) ==
    IF ~ReadOK(f, p) THEN <<>>
    ELSE LET idx == Index(f[p], <<"package=", "\"">>)
             start == idx + 2
             rest == SubSeq(f[p], start + 1, Len(f[p]))
             end == Index(rest, Quote)
         IN  IF idx # -1 /\ end # -1 THEN SubSeq(rest, 1, end) ELSE <<>>

PlistPlaceholder == <<"$", "(", "PRODUCT_BUNDLE_IDENTIFIER", ")">>

\* the loop of extractBundleIDFromInfoPlist from line i (1-based) on
RECURSIVE bundleIdentifierIn(_, _)
bundleIdentifierIn(lines, i) ==
    IF i > Len(lines) THEN <<>>
    ELSE LET nextLine == TrimSpace(lines[i + 1])
             bundleID == SubSeq(nextLine, 2, Len(nextLine) - 1)
         IN  IF /\ Contains(lines[i], <<"CFBundleIdentifier">>)
                /\ i + 1 <= Len(lines)
                /\ HasPrefix(nextLine, <<"<string>">>)
                /\ HasSuffix(nextLine, <<"</string>">>)
                /\ bundleID # PlistPlaceholder
             THEN bundleID
             ELSE bundleIdentifierIn(lines, i + 1)

extractBundleIDFromInfoPlist(f, p) ==
    IF ~ReadOK(f, p) THEN <<>> ELSE bundleIdentifierIn(Split(f[p]), 1)

\* the loop of extractBundleIDFromPbxproj over the lines
RECURSIVE productBundleIdentifierIn(_)
productBundleIdentifierIn(lines) ==
    IF lines = <<>> THEN <<>>
    ELSE LET line == TrimSpace(Head(lines))
             idx == Index(line, <<"=">>)
             remaining ==
                 Trim(TrimSuffix(TrimSpace(SubSeq(line, idx + 2, Len(line))), <<";">>),
                      {"\""})
         IN  IF /\ Contains(line, <<"PRODUCT_BUNDLE_IDENTIFIER">>)
                /\ idx # -1
                /\ remaining # <<>>
                /\ ~Contains(remaining, <<"$">>)
             THEN remaining
             ELSE productBundleIdentifierIn(Tail(lines))

extractBundleIDFromPbxproj(f, p) ==
    IF ~ReadOK(f, p) THEN <<>> ELSE productBundleIdentifierIn(Split(f[p]))

\* the first non-empty value an extractor finds in a list of files
RECURSIVE firstNonEmpty(_)
firstNonEmpty(values) ==
    IF values = <<>> THEN <<>>
    ELSE IF Head(values) # <<>> THEN Head(values)
    ELSE firstNonEmpty(Tail(values))

buildGradleFiles ==
    << <<"app", "build.gradle">>, <<"android", "app", "build.gradle">>, <<"build.gradle">> >>
manifestFiles ==
    << <<"app", "src", "main", "AndroidManifest.xml">>,
       <<"android", "app", "src", "main", "AndroidManifest.xml">>,
       <<"src", "main", "AndroidManifest.xml">> >>
infoPlistFiles ==
    << <<"ios", "Runner", "Info.plist">>, <<"Info.plist">>, <<"Runner", "Info.plist">> >>
\* filepath.Glob("*.xcodeproj/project.pbxproj") and
\* filepath.Glob("ios/*.xcodeproj/project.pbxproj") over the paths of the model
pbxprojFiles == << <<"MyApp.xcodeproj", "project.pbxproj">> >>
iosPbxprojFiles == << <<"ios", "MyApp.xcodeproj", "project.pbxproj">> >>

detectAndroidPackageName(f) ==
    firstNonEmpty(
        [i \in 1..Len(buildGradleFiles) |->
            extractPackageNameFromBuildGradle(f, buildGradleFiles[i])]
        \o [i \in 1..Len(manifestFiles) |->
            extractPackageNameFromManifest(f, manifestFiles[i])])

detectIOSBundleID(f) ==
    firstNonEmpty(
        [i \in 1..Len(infoPlistFiles) |->
            extractBundleIDFromInfoPlist(f, infoPlistFiles[i])]
        \o [i \in 1..Len(pbxprojFiles) |->
            extractBundleIDFromPbxproj(f, pbxprojFiles[i])]
        \o [i \in 1..Len(iosPbxprojFiles) |->
            extractBundleIDFromPbxproj(f, iosPbxprojFiles[i])])

(***************************************************************************)
(* Identifier resolution (firebase.go).  A Config is a record with the     *)
(* fields ProjectID, AppID, Platform (the platform's Name()), BundleID and *)
(* PackageName.                                                            *)
(***************************************************************************)
\* strings.ToLower over the platform names of the code and of the registry
ToLowerName ==
    "Android" :> "android" @@ "iOS" :> "ios" @@ "macOS" :> "macos" @@
    "Windows" :> "windows" @@ "Linux" :> "linux" @@
    "ANDROID" :> "android" @@ "IOS" :> "ios" @@ "WEB" :> "web"

androidPlatform == "android"
iosPlatform == "ios"
macosPlatform == "macos"

\* resolution that lets the project files override the flag
resolveExpectedIdentifier_ParsedFirst(f, cfg, platformName) ==
    IF platformName = iosPlatform \/ platformName = macosPlatform
    THEN firstNonEmpty(<<detectIOSBundleID(f), cfg.BundleID,
                         generateDefaultBundleID(cfg.ProjectID)>>)
    ELSE IF platformName = androidPlatform
    THEN firstNonEmpty(<<detectAndroidPackageName(f), cfg.PackageName,
                         generateDefaultPackageName(cfg.ProjectID)>>)
    ELSE <<>>

resolveExpectedIdentifier(f, cfg, platformName) ==
    IF platformName = iosPlatform \/ platformName = macosPlatform
    THEN LET a == cfg.BundleID
             b == IF a = <<>> THEN detectIOSBundleID(f) ELSE a
         IN  IF b = <<>> THEN generateDefaultBundleID(cfg.ProjectID) ELSE b
    ELSE IF platformName = androidPlatform
    THEN LET a == cfg.PackageName
             b == IF a = <<>> THEN detectAndroidPackageName(f) ELSE a
         IN  IF b = <<>> THEN generateDefaultPackageName(cfg.ProjectID) ELSE b
    ELSE <<>>

\* the expected bundle id of checkIOSAppMatch
expectedBundleID(f, cfg) ==
    LET a == cfg.BundleID
        b == IF a = <<>> THEN detectIOSBundleID(f) ELSE a
    IN  IF b = <<>> THEN generateDefaultBundleID(cfg.ProjectID) ELSE b

\* the expected package name of checkAndroidAppMatch
expectedPackageName(f, cfg) ==
    LET a == cfg.PackageName
        b == IF a = <<>> THEN detectAndroidPackageName(f) ELSE a
    IN  IF b = <<>> THEN generateDefaultPackageName(cfg.ProjectID) ELSE b

\* the identifier argument buildCreateAppCommand appends (--package-name or
\* --bundle-id), or NoIdentifierArg when it appends none
NoIdentifierArg == <<"<no identifier argument>">>
createIdentifier(f, cfg) ==
    LET lower == ToLowerName[cfg.Platform]
    IN  IF lower = androidPlatform THEN expectedPackageName(f, cfg)
        ELSE IF lower = iosPlatform \/ lower = macosPlatform THEN expectedBundleID(f, cfg)
        ELSE NoIdentifierArg

(***************************************************************************)
(* App registration (firebase.go).  The registry is the list of apps the   *)
(* Firebase CLI reports for the project; an App is a record with the       *)
(* fields AppID, Platform, Namespace, BundleID and PackageName.            *)
(***************************************************************************)
NoApp == [AppID |-> <<>>, Platform |-> "<none>", Namespace |-> <<>>,
          BundleID |-> <<>>, PackageName |-> <<>>]

getPlatformFlag(platformName) ==
    LET lower == ToLowerName[platformName]
    IN  IF lower = androidPlatform THEN androidPlatform
        ELSE IF lower = iosPlatform \/ lower = macosPlatform THEN iosPlatform
        ELSE IF lower = "web" THEN "web"
        ELSE androidPlatform

\* the end of the run of atoms outside stop that starts at position j
RECURSIVE RunEnd(_, _, _)
RunEnd(s, j, stop) ==
    IF j + 1 <= Len(s) /\ s[j + 1] \notin stop THEN RunEnd(s, j + 1, stop) ELSE j

\* the first position from j on that holds an atom outside skip
RECURSIVE SkipAtoms(_, _, _)
SkipAtoms(s, j, skip) ==
    IF j <= Len(s) /\ s[j] \in skip THEN SkipAtoms(s, j + 1, skip) ELSE j

\* the leftmost match of `App ID:\s+([^\s\n]+)` from position i on
RECURSIVE matchAppIDText(_, _)
matchAppIDText(out, i) ==
    IF i > Len(out) THEN <<>>
    ELSE LET j == SkipAtoms(out, i + 1, WhiteSpace)
         IN  IF out[i] = "App ID:" /\ j > i + 1 /\ j <= Len(out)
             THEN SubSeq(out, j, RunEnd(out, j, WhiteSpace))
             ELSE matchAppIDText(out, i + 1)

\* the leftmost match of `"appId":\s*"([^"]+)"` from position i on
RECURSIVE matchAppIDJson(_, _)
matchAppIDJson(out, i) ==
    IF i + 3 > Len(out) THEN <<>>
    ELSE LET j == SkipAtoms(out, i + 4, WhiteSpace)
             k == RunEnd(out, j + 1, {"\""})
         IN  IF /\ SubSeq(out, i, i + 3) = <<"\"", "appId", "\"", ":">>
                /\ j + 2 <= Len(out)
                /\ out[j] = "\""
                /\ out[j + 1] # "\""
                /\ k + 1 <= Len(out)
             THEN SubSeq(out, j + 1, k)
             ELSE matchAppIDJson(out, i + 1)

extractAppIDFromOutput(output) ==
    IF matchAppIDText(output, 1) # <<>> THEN matchAppIDText(output, 1)
    ELSE matchAppIDJson(output, 1)

\* strings.ToLower over the atoms of the CLI's messages
LowerAtom(a) ==
    CASE a = "ALREADY EXISTS" -> "already exists"
      [] a = "Duplicate" -> "duplicate"
      [] a = "Bundle ID " -> "bundle id "
      [] a = "Package name " -> "package name "
      [] a = "Bundle ID for iOS app cannot be empty" -> "bundle id for ios app cannot be empty"
      [] a = "Failed to create iOS app" -> "failed to create ios app"
      [] a = "Failed to create Android app" -> "failed to create android app"
      [] OTHER -> a
ToLower(s) == [i \in 1..Len(s) |-> LowerAtom(s[i])]

errorIndicators ==
    << <<"already exists">>,
       <<"duplicate">>,
       <<"bundle id ", "already exists">>,
       <<"package name ", "already exists">>,
       <<"Bundle ID for iOS app cannot be empty">>,
       <<"Failed to create iOS app">>,
       <<"Failed to create Android app">> >>

isDuplicateAppError(output) ==
    \E i \in 1..Len(errorIndicators) :
        Contains(ToLower(output), ToLower(errorIndicators[i]))

\* the identifier of an app that checkIOSAppMatch compares
bundleIDToCheck(app) == IF app.BundleID = <<>> THEN app.Namespace ELSE app.BundleID
checkIOSAppMatch(f, app, cfg) == bundleIDToCheck(app) = expectedBundleID(f, cfg)

\* the identifier of an app that checkAndroidAppMatch compares
packageNameToCheck(app) == IF app.PackageName = <<>> THEN app.Namespace ELSE app.PackageName
checkAndroidAppMatch(f, app, cfg) == packageNameToCheck(app) = expectedPackageName(f, cfg)

checkAppMatch(f, app, cfg, platformName) ==
    IF platformName = iosPlatform \/ platformName = macosPlatform
    THEN checkIOSAppMatch(f, app, cfg)
    ELSE IF platformName = androidPlatform THEN checkAndroidAppMatch(f, app, cfg)
    ELSE FALSE

\* the first app of a list, or NoApp: what a loop that returns on its first
\* match returns, given the apps that match
firstApp(matching) == IF matching = <<>> THEN NoApp ELSE Head(matching)

\* FindExistingApp on a listing that succeeded
FindExistingApp(f, cfg, apps) ==
    LET platformName == ToLowerName[cfg.Platform]
        Test(app) == /\ ToLowerName[app.Platform] = platformName
                     /\ checkAppMatch(f, app, cfg, platformName)
    IN  firstApp(SelectSeq(apps, Test))

filterAppsByPlatform(apps, platformName) ==
    SelectSeq(apps, LAMBDA app : ToLowerName[app.Platform] = platformName)

findMatchingApp(platformApps, expectedIdentifier, platformName) ==
    LET Test(app) ==
            \/ app.Namespace = expectedIdentifier
            \/ /\ platformName = iosPlatform \/ platformName = macosPlatform
               /\ app.BundleID = expectedIdentifier
            \/ /\ platformName = androidPlatform
               /\ app.PackageName = expectedIdentifier
    IN  firstApp(SelectSeq(platformApps, Test))

\* findExistingAppByIdentifier on a listing that succeeded
findExistingAppByIdentifier(f, cfg, apps) ==
    LET platformName == ToLowerName[cfg.Platform]
    IN  findMatchingApp(filterAppsByPlatform(apps, platformName),
                        resolveExpectedIdentifier(f, cfg, platformName), platformName)

\* the value of a nil error, and the errors RegisterApp returns
Nil == <<"<nil>">>
ErrNoCLI == <<"firebase CLI not found. Please install it first: npm install -g firebase-tools">>
ErrNotAuthenticated == <<"not authenticated with Firebase. Please run: firebase login">>
ErrAuthCheck == <<"failed to check authentication">>
ErrExtract == <<"failed to extract app ID from Firebase CLI output">>
ErrCreate == <<"failed to create Firebase app: ">>

\* checkFirebaseCLI followed by checkAuthentication, on what the environment answers
checkCLIAndAuthentication(pre) ==
    CASE pre = "no cli" -> ErrNoCLI
      [] pre = "not authenticated" -> ErrNotAuthenticated
      [] pre = "auth error" -> ErrAuthCheck
      [] OTHER -> Nil

\* the early return of RegisterApp for a caller-supplied app id
hasExplicitAppID_Never(cfg) == FALSE
hasExplicitAppID(cfg) == cfg.AppID # <<>>

\* what the Firebase CLI prints for apps:create, by the kind of its answer
CreateSucceeds == {"text", "json", "no id"}
CreateFails == {"exists", "EXISTS", "denied"}
CreateOutput(kind, id) ==
    CASE kind = "text" -> <<"Creating your app", NL, "App ID:", " ">> \o id \o <<NL>>
      [] kind = "json" -> <<"{", "\"", "appId", "\"", ":", " ", "\"">> \o id \o <<"\"", "}">>
      [] kind = "no id" -> <<"App created", NL>>
      [] kind = "exists" -> <<"Error:", " ", "App", " ", "already exists", NL>>
      [] kind = "EXISTS" -> <<"Error:", " ", "ALREADY EXISTS", NL>>
      [] OTHER -> <<"Error:", " ", "permission denied", NL>>

\* the registry's platform of an app created with a platform flag
RegistryPlatform == "android" :> "ANDROID" @@ "ios" :> "IOS" @@ "web" :> "WEB"

\* the id the registry gives the next app
NewAppID(apps, flag) == <<"1:42:", flag, ":">> \o [i \in 1..(Len(apps) + 1) |-> "x"]

\* the app the registry holds after a successful apps:create
CreatedApp(f, cfg, apps) ==
    LET flag == getPlatformFlag(cfg.Platform)
        ident == createIdentifier(f, cfg)
    IN  [AppID |-> NewAppID(apps, flag),
         Platform |-> RegistryPlatform[flag],
         Namespace |-> IF ident = NoIdentifierArg THEN <<>> ELSE ident,
         BundleID |-> <<>>,
         PackageName |-> <<>>]

\* handleAppCreationError: the app id it sets (or none) and the error it returns;
\* listed is whether the second apps:list succeeds
handleAppCreationError_AlwaysSearch(f, cfg, apps, outputStr, listed) ==
    LET existingApp == findExistingAppByIdentifier(f, cfg, apps)
    IN  IF listed /\ existingApp # NoApp
        THEN [AppID |-> existingApp.AppID, err |-> Nil]
        ELSE [AppID |-> cfg.AppID, err |-> ErrCreate \o outputStr]
handleAppCreationError(f, cfg, apps, outputStr, listed) ==
    LET existingApp == findExistingAppByIdentifier(f, cfg, apps)
    IN  IF isDuplicateAppError(outputStr) /\ listed /\ existingApp # NoApp
        THEN [AppID |-> existingApp.AppID, err |-> Nil]
        ELSE [AppID |-> cfg.AppID, err |-> ErrCreate \o outputStr]

\* What one call of RegisterApp leaves: the Config and the registry after the
\* call, and what the call did: the error it returned, the app id it left, how
\* each apps:list ended ("none" if not called), the number of apps:create
\* calls, what apps:create printed, and the app created.
Outcome(c, r, res, l1, l2, cc, out, made) ==
    [config |-> c, registry |-> r,
     obs |-> [result |-> res, appID |-> c.AppID, listing1 |-> l1, listing2 |-> l2,
              createCalls |-> cc, createOut |-> out, created |-> made]]

\* how an apps:list ended
Listing(ok) == IF ok THEN "ok" ELSE "fail"

\* RegisterApp from the apps:create call on: output is what the CLI printed,
\* handled what handleAppCreationError answers, appID what
\* extractAppIDFromOutput finds
RegisterAppCreate_NoIdCheck(cfg, apps, env, newApp, output, handled, appID) ==
    IF env.create \in CreateFails
    THEN Outcome([cfg EXCEPT !.AppID = handled.AppID], apps, handled.err,
                 Listing(env.list1),
                 IF isDuplicateAppError(output) THEN Listing(env.list2) ELSE "none",
                 1, output, NoApp)
    ELSE Outcome([cfg EXCEPT !.AppID = appID], Append(apps, newApp), Nil,
                 Listing(env.list1), "none", 1, output, newApp)
RegisterAppCreate(cfg, apps, env, newApp, output, handled, appID) ==
    IF env.create \in CreateFails
    THEN Outcome([cfg EXCEPT !.AppID = handled.AppID], apps, handled.err,
                 Listing(env.list1),
                 IF isDuplicateAppError(output) THEN Listing(env.list2) ELSE "none",
                 1, output, NoApp)
    ELSE IF appID = <<>>
    THEN Outcome(cfg, Append(apps, newApp), ErrExtract,
                 Listing(env.list1), "none", 1, output, newApp)
    ELSE Outcome([cfg EXCEPT !.AppID = appID], Append(apps, newApp), Nil,
                 Listing(env.list1), "none", 1, output, newApp)

\* RegisterApp from the lookup on: existingApp is what FindExistingApp finds
\* when the listing succeeds, newApp the app a successful apps:create registers,
\* output what apps:create prints
RegisterAppLookup(f, cfg, apps, env, existingApp, newApp, output) ==
    IF env.list1 /\ existingApp # NoApp
    THEN Outcome([cfg EXCEPT !.AppID = existingApp.AppID], apps, Nil,
                 "ok", "none", 0, <<>>, NoApp)
    ELSE RegisterAppCreate(cfg, apps, env, newApp, output,
                           handleAppCreationError(f, cfg, apps, output, env.list2),
                           extractAppIDFromOutput(output))

\* RegisterApp after the checks of the CLI, whose error is pre
RegisterAppChecked(f, cfg, apps, env, pre, newApp) ==
    IF pre # Nil THEN Outcome(cfg, apps, pre, "none", "none", 0, <<>>, NoApp)
    ELSE IF hasExplicitAppID(cfg)
    THEN Outcome(cfg, apps, Nil, "none", "none", 0, <<>>, NoApp)
    ELSE RegisterAppLookup(f, cfg, apps, env, FindExistingApp(f, cfg, apps), newApp,
                           CreateOutput(env.create, newApp.AppID))

\* One call of RegisterApp on the Config cfg, with the registry holding apps and
\* the environment answering env.
RegisterAppCall(f, cfg, apps, env) ==
    RegisterAppChecked(f, cfg, apps, env, checkCLIAndAuthentication(env.pre),
                       CreatedApp(f, cfg, apps))

(***************************************************************************)
(* The generator specification: every project id over a small alphabet up  *)
(* to MaxIdLen atoms, and the three ids of the unit tests.                 *)
(***************************************************************************)
MaxIdLen == 4
IdAtoms == {"a", "b", "-", "."}

RECURSIVE SeqsUpTo(_, _)
SeqsUpTo(S, n) ==
    IF n = 0 THEN {<<>>}
    ELSE LET shorter == SeqsUpTo(S, n - 1)
         IN  shorter \cup {Append(s, a) : s \in {t \in shorter : Len(t) = n - 1}, a \in S}

IdMyProject == <<"myproject">>
IdMyAwesomeProject == <<"my", "-", "awesome", "-", "project">>
IdComExampleProject == <<"com", ".", "example", ".", "project">>

ProjectIDs ==
    SeqsUpTo(IdAtoms, MaxIdLen) \cup {IdMyProject, IdMyAwesomeProject, IdComExampleProject}

(***************************************************************************)
(* The Spinner (internal/ui).  The fields active and stopChan of a Spinner *)
(* are the record fields active and closed; closes counts the calls of     *)
(* close(s.stopChan) and panicked tells that one of them hit the closed    *)
(* channel.  A critical section of s.mutex is one step.                    *)
(***************************************************************************)
MaxCalls == 4
MaxFrames == 2
Threads == {"t1", "t2"}

\* NewSpinner: not active, the stop channel open
NewSpinner == [active |-> FALSE, closed |-> FALSE, closes |-> 0, panicked |-> FALSE]

\* the critical section of Start: nothing when the spinner is active
StartLocked(s) == IF s.active THEN s ELSE [s EXCEPT !.active = TRUE]

\* Stop: nothing when the spinner is not active, else active is reset and the
\* channel closed; closing the closed channel panics
StopLocked(s) ==
    IF ~s.active THEN s
    ELSE [s EXCEPT !.active = FALSE, !.closed = TRUE, !.closes = @ + 1,
                   !.panicked = s.closed]

\* the select of the animation goroutine: it returns when the channel is
\* closed and takes the default branch otherwise
selectStop(s) == IF s.closed THEN "done" ELSE "lock"

\* the default branch prints a frame when the spinner is active, else the
\* goroutine returns
printsFrame_Unchecked(s) == TRUE
printsFrame(s) == s.active

\* the error a callback of ShowLoader may return
ErrCallback == <<"callback failed">>

NoLoader == [pc |-> "idle", calls |-> 0, err |-> NotRun, result |-> NotRun]
NoScreen == [frames |-> 0, quiet |-> FALSE, late |-> FALSE, outcome |-> "<none>"]
SpinIdle ==
    /\ spinner = NewSpinner
    /\ callers = <<>>
    /\ routines = <<>>
    /\ screen = NoScreen
    /\ loader = NoLoader

\* the state of the parts of the model a specification does not exercise
EmptyProject == <<>>
GenIdle == genPkg = NotRun /\ genBundle = NotRun
DetIdle == detected = NotDetectedYet

NoConfig == [ProjectID |-> <<>>, AppID |-> <<>>, Platform |-> "<none>",
             BundleID |-> <<>>, PackageName |-> <<>>]
NotResolved == [expected |-> NotRun, create |-> NotRun, match |-> NotRun]
ResIdle == config = NoConfig /\ resolved = NotResolved
RegIdle == flags = NoConfig /\ registry = <<>> /\ log = <<>>
CfgIdle ==
    /\ args = [platformFlag |-> "", autoDetect |-> FALSE]
    /\ backend = [cli |-> "<none>", answer |-> <<>>]
    /\ pc = "idle" /\ trace = <<>> /\ runErr = NotRun /\ tmp = <<>> /\ artifact = ""

MutIdle ==
    /\ targetPlatform = "<none>" /\ response = "<none>"
    /\ snaps = <<>> /\ results = <<>> /\ printed = <<>> /\ unwritable = {}

GenInit ==
    /\ SpinIdle
    /\ projectID \in ProjectIDs
    /\ fs = EmptyProject
    /\ GenIdle
    /\ DetIdle
    /\ ResIdle
    /\ RegIdle
    /\ MutIdle
    /\ CfgIdle

GeneratePackageName ==
    /\ genPkg' = generateDefaultPackageName(projectID)
    /\ UNCHANGED <<projectID, fs, genBundle, detVars, resVars, regVars, mutVars, cfgVars, spinVars>>

GenerateBundleID ==
    /\ genBundle' = generateDefaultBundleID(projectID)
    /\ UNCHANGED <<projectID, fs, genPkg, detVars, resVars, regVars, mutVars, cfgVars, spinVars>>

GenNext == GeneratePackageName \/ GenerateBundleID

SpecGen == GenInit /\ [][GenNext]_vars

(***************************************************************************)
(* The detection specification: every combination of the structural        *)
(* signals the detectors probe, then one call of DetectPlatform.           *)
(***************************************************************************)
DetectSignals ==
    { <<"build.gradle">>, <<"app", "build.gradle">>, <<"android", "build.gradle">>,
      <<"settings.gradle">>,
      <<"ios">>, <<"MyApp.xcodeproj">>, <<"MyApp.xcworkspace">>, <<"Podfile">>,
      <<"macos">>, <<"main.swift">>,
      <<"windows">>, <<"MyApp.vcxproj">>, <<"MyApp.sln">>, <<"CMakeLists.txt">>,
      <<"linux">>, <<"Makefile">> }

\* a directory holding exactly the paths of S, each empty
Holding(S) == [p \in S |-> IF p \in Dirs THEN DirEntry ELSE EmptyFile]

DetInit ==
    /\ SpinIdle
    /\ projectID = IdMyProject
    /\ fs \in {Holding(S) : S \in SUBSET DetectSignals}
    /\ GenIdle
    /\ DetIdle
    /\ ResIdle
    /\ RegIdle
    /\ MutIdle
    /\ CfgIdle

RunDetectPlatform ==
    /\ detected = NotDetectedYet
    /\ detected' = DetectPlatform(fs)
    /\ UNCHANGED <<projectID, fs, genVars, resVars, regVars, mutVars, cfgVars, spinVars>>

DetNext == RunDetectPlatform

SpecDetect == DetInit /\ [][DetNext]_vars

(***************************************************************************)
(* The resolution specification: every combination of an explicit          *)
(* identifier, project files that carry, lack or only template an          *)
(* identifier, and a project id; then one resolution.                      *)
(***************************************************************************)
\* the content of a project file, built the way the tools lay these files out
GradleWith(id) ==
    <<"android {", NL, "    ", "defaultConfig {", NL,
      "        ", "applicationId", " ">> \o Quote \o id \o Quote \o
    <<NL, "    ", "}", NL, "}", NL>>
GradleWithout == <<"android {", NL, "    ", "defaultConfig {", NL, "    ", "}", NL, "}", NL>>
ManifestWith(id) ==
    <<"<manifest", " ", "package=">> \o Quote \o id \o Quote \o
    <<">", NL, "</manifest>", NL>>
PlistWith(id) ==
    <<"<dict>", NL, "    ", "<key>", "CFBundleIdentifier", "</key>", NL,
      "    ", "<string>">> \o id \o <<"</string>", NL, "</dict>", NL>>
PbxprojWith(id) ==
    <<"buildSettings = {", NL, "        ", "PRODUCT_BUNDLE_IDENTIFIER", " ", "=", " ">>
    \o id \o <<";", NL, "};", NL>>
PbxprojPlaceholder == Quote \o <<"$", "(", "BUNDLE_ID", ")">> \o Quote

\* an identifier that names the file it is written in
FileId(tag) == <<"com", ".", "example", ".", tag>>
ExplicitId == <<"com", ".", "explicit", ".", "app">>

Absent == <<"<absent>">>
ResolveOptions ==
    buildGradleFiles[1] :> <<Absent, GradleWithout, GradleWith(FileId("gradle1"))>> @@
    buildGradleFiles[2] :> <<Absent, GradleWithout, GradleWith(FileId("gradle2"))>> @@
    buildGradleFiles[3] :> <<Absent, GradleWithout, GradleWith(FileId("gradle3"))>> @@
    manifestFiles[1] :> <<Absent, ManifestWith(FileId("manifest1"))>> @@
    manifestFiles[2] :> <<Absent, ManifestWith(FileId("manifest2"))>> @@
    manifestFiles[3] :> <<Absent, ManifestWith(FileId("manifest3"))>> @@
    infoPlistFiles[1] :> <<Absent, PlistWith(PlistPlaceholder), PlistWith(FileId("plist1"))>> @@
    infoPlistFiles[2] :> <<Absent, PlistWith(PlistPlaceholder), PlistWith(FileId("plist2"))>> @@
    infoPlistFiles[3] :> <<Absent, PlistWith(PlistPlaceholder), PlistWith(FileId("plist3"))>> @@
    pbxprojFiles[1] :>
        <<Absent, PbxprojWith(PbxprojPlaceholder), PbxprojWith(FileId("pbxproj1"))>> @@
    iosPbxprojFiles[1] :>
        <<Absent, PbxprojWith(PbxprojPlaceholder), PbxprojWith(FileId("pbxproj2"))>>

AndroidIdFiles ==
    {buildGradleFiles[i] : i \in 1..3} \cup {manifestFiles[i] : i \in 1..3}
IOSIdFiles ==
    {infoPlistFiles[i] : i \in 1..3} \cup {pbxprojFiles[1], iosPbxprojFiles[1]}

Ancestors(p) == {SubSeq(p, 1, k) : k \in 1..(Len(p) - 1)}

\* the directory that holds the files of c that are not Absent, and their
\* parent directories
MkFs(c) ==
    LET files == {p \in DOMAIN c : c[p] # Absent}
        all == files \cup UNION {Ancestors(p) : p \in files}
    IN  [p \in all |-> IF p \in files THEN c[p] ELSE DirEntry]

ProjectsOver(paths) ==
    {MkFs([p \in paths |-> ResolveOptions[p][k[p]]]) :
        k \in {j \in [paths -> 1..3] : \A p \in paths : j[p] <= Len(ResolveOptions[p])}}

\* values that still hold a variable of the build
GradlePlaceholder == <<"$", "{", "applicationId", "}">>
PlistSuffixedPlaceholder == PlistPlaceholder \o <<".", "dev">>

\* projects whose first candidate file only templates the identifier while
\* a later candidate carries one
TemplatedProjects ==
    {MkFs(buildGradleFiles[1] :> GradleWith(GradlePlaceholder)
          @@ buildGradleFiles[2] :> GradleWith(FileId("gradle2"))),
     MkFs(buildGradleFiles[1] :> GradleWithout
          @@ manifestFiles[1] :> ManifestWith(GradlePlaceholder)
          @@ manifestFiles[2] :> ManifestWith(FileId("manifest2"))),
     MkFs(infoPlistFiles[1] :> PlistWith(PlistSuffixedPlaceholder)
          @@ pbxprojFiles[1] :> PbxprojWith(FileId("pbxproj1"))),
     MkFs(infoPlistFiles[1] :> PlistWith(PlistPlaceholder)
          @@ pbxprojFiles[1] :> PbxprojWith(PbxprojPlaceholder)
          @@ iosPbxprojFiles[1] :> PbxprojWith(FileId("pbxproj2")))}

ResolveProjects ==
    ProjectsOver(AndroidIdFiles) \cup ProjectsOver(IOSIdFiles) \cup TemplatedProjects

ResInit ==
    /\ SpinIdle
    /\ projectID \in {IdMyProject, IdMyAwesomeProject}
    /\ fs \in ResolveProjects
    /\ config \in [ProjectID : {projectID}, AppID : {<<>>}, Platform : PlatformNames,
                    BundleID : {<<>>, ExplicitId}, PackageName : {<<>>, ExplicitId}]
    /\ resolved = NotResolved
    /\ GenIdle
    /\ DetIdle
    /\ RegIdle
    /\ MutIdle
    /\ CfgIdle

\* the three places of the client that resolve the identifier
Resolve ==
    /\ resolved = NotResolved
    /\ resolved' =
          [expected |-> resolveExpectedIdentifier(fs, config, ToLowerName[config.Platform]),
           create |-> createIdentifier(fs, config),
           match |-> IF ToLowerName[config.Platform] = androidPlatform
                     THEN expectedPackageName(fs, config)
                     ELSE expectedBundleID(fs, config)]
    /\ UNCHANGED <<projectID, fs, config, genVars, detVars, regVars, mutVars, cfgVars, spinVars>>

ResNext == Resolve

SpecResolve == ResInit /\ [][ResNext]_vars

(***************************************************************************)
(* The registration specification: a configure command line, a project,    *)
(* a registry that holds no app or one app, and up to MaxRuns calls of     *)
(* RegisterApp with the same command line, the environment answering each  *)
(* call as it may.                                                         *)
(***************************************************************************)
MaxRuns == 2

ExplicitAppID == <<"1:42:", "explicit">>
OtherId == <<"com", ".", "other", ".", "app">>

\* a project whose Android and iOS files both carry an identifier
RegProject ==
    MkFs(buildGradleFiles[1] :> GradleWith(FileId("gradle1")) @@
         infoPlistFiles[1] :> PlistWith(FileId("plist1")))

\* the registries that hold at most one app, its identifier fields empty, equal
\* to the identifier the command line resolves to, or another one
InitialRegistries(f, cfg) ==
    LET expected == resolveExpectedIdentifier(f, cfg, ToLowerName[cfg.Platform])
        values == {<<>>, expected, OtherId}
    IN  {<<>>} \cup
        {<<[AppID |-> NewAppID(<<>>, "android"), Platform |-> "ANDROID",
            Namespace |-> n, BundleID |-> <<>>, PackageName |-> v]>> :
                n \in values, v \in values} \cup
        {<<[AppID |-> NewAppID(<<>>, "ios"), Platform |-> "IOS",
            Namespace |-> n, BundleID |-> v, PackageName |-> <<>>]>> :
                n \in values, v \in values}

\* what the environment may answer during one call
Envs ==
    [pre : {"no cli", "not authenticated", "auth error"},
     list1 : {TRUE}, create : {"text"}, list2 : {TRUE}]
    \cup [pre : {"ok"}, list1 : BOOLEAN, create : CreateSucceeds \cup {"denied"},
          list2 : {TRUE}]
    \cup [pre : {"ok"}, list1 : BOOLEAN, create : {"exists", "EXISTS"}, list2 : BOOLEAN]

RegInit ==
    /\ SpinIdle
    /\ projectID = IdMyProject
    /\ fs = RegProject
    /\ \E explicit \in {<<>>, ExplicitId} :
          flags \in [ProjectID : {projectID}, AppID : {<<>>, ExplicitAppID},
                     Platform : PlatformNames,
                     BundleID : {explicit}, PackageName : {explicit}]
    /\ registry \in InitialRegistries(fs, flags)
    /\ config = flags
    /\ log = <<>>
    /\ resolved = NotResolved
    /\ GenIdle
    /\ DetIdle
    /\ MutIdle
    /\ CfgIdle

\* the state after a call of RegisterApp that left r
Registered(r) ==
    /\ config' = r.config
    /\ registry' = r.registry
    /\ log' = Append(log, r.obs)

\* runConfigure builds the Config from the flags and calls RegisterApp
RegisterApp ==
    /\ Len(log) < MaxRuns
    /\ \E env \in Envs : Registered(RegisterAppCall(fs, flags, registry, env))
    /\ UNCHANGED <<projectID, fs, flags, resolved, genVars, detVars, mutVars, cfgVars, spinVars>>

RegNext == RegisterApp

SpecRegister == RegInit /\ [][RegNext]_vars

(***************************************************************************)
(* The Android source mutator (AndroidPlatform.AddInitializationCode).     *)
(***************************************************************************)
\* os.WriteFile: the file p holds content afterwards, created if need be
WriteFile(f, p, content) == (p :> content) @@ f

\* what an AddInitializationCode call leaves: the directory and the error
Mutated(f, err) == [fs |-> f, err |-> err]

ErrNoBuildGradle == <<"could not find app-level build.gradle file">>

\* findBuildGradle: the first candidate that exists
findBuildGradle(f) ==
    IF fileExists(f, <<"app", "build.gradle">>) THEN <<"app", "build.gradle">>
    ELSE IF fileExists(f, <<"android", "app", "build.gradle">>)
    THEN <<"android", "app", "build.gradle">>
    ELSE IF fileExists(f, <<"build.gradle">>) THEN <<"build.gradle">>
    ELSE NoPath

\* the plugin declaration AddInitializationCode adds to the content of the
\* app-level build file: after the opening of the plugins block, else on top
addGoogleServicesPlugin_NoFallback(contentStr) ==
    Replace1(contentStr, <<"plugins {">>,
             <<"plugins {", NL, "    ", "id 'com.google.gms.", "google-services", "'">>)
addGoogleServicesPlugin(contentStr) ==
    IF Contains(contentStr, <<"plugins {">>)
    THEN Replace1(contentStr, <<"plugins {">>,
                  <<"plugins {", NL, "    ", "id 'com.google.gms.", "google-services", "'">>)
    ELSE <<"apply plugin: 'com.google.gms.", "google-services", "'", NL, NL>> \o contentStr

\* the dependency patch of the app-level build file, skipped when the file
\* mentions google-services
patchBuildGradle_Unguarded(f, buildGradlePath) ==
    WriteFile(f, buildGradlePath, addGoogleServicesPlugin(f[buildGradlePath]))
patchBuildGradle(f, buildGradlePath) ==
    IF Contains(f[buildGradlePath], <<"google-services">>) THEN f
    ELSE WriteFile(f, buildGradlePath, addGoogleServicesPlugin(f[buildGradlePath]))

\* findProjectBuildGradle: the first candidate that holds a buildscript block
findProjectBuildGradle(f) ==
    IF ReadOK(f, <<"build.gradle">>) /\ Contains(f[<<"build.gradle">>], <<"buildscript">>)
    THEN <<"build.gradle">>
    ELSE IF /\ ReadOK(f, <<"android", "build.gradle">>)
            /\ Contains(f[<<"android", "build.gradle">>], <<"buildscript">>)
    THEN <<"android", "build.gradle">>
    ELSE NoPath

\* addClasspathToBuildGradle: the classpath goes right after the first
\* "dependencies {" unless the file mentions google-services
addClasspathToBuildGradle(f, buildGradlePath) ==
    IF /\ ~Contains(f[buildGradlePath], <<"google-services">>)
       /\ Contains(f[buildGradlePath], <<"dependencies {">>)
    THEN WriteFile(f, buildGradlePath,
                   InsertAt(f[buildGradlePath],
                            Index(f[buildGradlePath], <<"dependencies {">>) + 1,
                            <<NL, "        ", "classpath 'com.google.gms:",
                              "google-services", ":4.3.15'">>))
    ELSE f

\* the project-level part of AddInitializationCode
patchProjectBuildGradle(f, projectBuildGradlePath) ==
    IF projectBuildGradlePath = NoPath THEN f
    ELSE addClasspathToBuildGradle(f, projectBuildGradlePath)

\* the import addFirebaseImportsToMainActivity adds: after the Bundle import,
\* else after the AppCompatActivity import, else before the first "package";
\* semi is <<";">> for Java and <<>> for Kotlin
addFirebaseImport(contentStr, semi) ==
    LET firebase == <<"import com.google.firebase.FirebaseApp">> \o semi
        bundle == <<"import android.os.Bundle">> \o semi
        compat == <<"import androidx.appcompat.app.AppCompatActivity">> \o semi
    IN  IF Contains(contentStr, firebase) THEN contentStr
        ELSE IF Contains(contentStr, bundle)
        THEN Replace1(contentStr, bundle, bundle \o <<NL>> \o firebase)
        ELSE IF Contains(contentStr, compat)
        THEN Replace1(contentStr, compat, compat \o <<NL>> \o firebase)
        ELSE Replace1(contentStr, <<"package">>, firebase \o <<NL, NL, "package">>)


\* the mutant of addInitializeApp that puts the call before the call of
\* super.onCreate
addInitializeApp_BeforeSuper(contentStr, semi) ==
    LET super == <<"super.", "onCreate", "(savedInstanceState)">> \o semi
    IN  IF Contains(contentStr, <<"onCreate">>)
        THEN Replace1(contentStr, super,
                      <<"FirebaseApp.initializeApp", "(this)">> \o semi
                      \o <<NL, "        ">> \o super)
        ELSE contentStr

\* the call addFirebaseImportsToMainActivity adds: after the first call of
\* super.onCreate(savedInstanceState) when the file mentions onCreate
addInitializeApp(contentStr, semi) ==
    LET super == <<"super.", "onCreate", "(savedInstanceState)">> \o semi
    IN  IF Contains(contentStr, <<"onCreate">>)
        THEN Replace1(contentStr, super,
                      super \o <<NL, "        ", "FirebaseApp.initializeApp", "(this)">> \o semi)
        ELSE contentStr


\* the mutant of patchMainActivity that does not look for the marker
patchMainActivity_Unguarded(contentStr, semi) ==
    addInitializeApp(addFirebaseImport(contentStr, semi), semi)

\* one language branch of addFirebaseImportsToMainActivity, guarded by the marker
patchMainActivity(contentStr, semi) ==
    IF Contains(contentStr, <<"FirebaseApp.initializeApp">>) THEN contentStr
    ELSE addInitializeApp(addFirebaseImport(contentStr, semi), semi)

\* addFirebaseImportsToMainActivity once the file is found; the file is
\* written back in every case
patchMainActivityAt(f, mainActivityPath) ==
    IF mainActivityPath = NoPath THEN f
    ELSE IF PathContains(mainActivityPath, ".java")
    THEN WriteFile(f, mainActivityPath, patchMainActivity(f[mainActivityPath], <<";">>))
    ELSE IF PathContains(mainActivityPath, ".kt")
    THEN WriteFile(f, mainActivityPath, patchMainActivity(f[mainActivityPath], <<>>))
    ELSE f

\* the first of two findFile results that is not empty
firstFound(a, b) == IF a # NoPath THEN a ELSE b

addFirebaseImportsToMainActivity(f) ==
    patchMainActivityAt(f, firstFound(findFile(f, "MainActivity.java"),
                                      findFile(f, "MainActivity.kt")))

\* AddInitializationCode after the app-level build file is patched
patchProjectAndMainActivity(f) ==
    addFirebaseImportsToMainActivity(patchProjectBuildGradle(f, findProjectBuildGradle(f)))

\* AndroidPlatform.AddInitializationCode on the directory f; the Gradle sync
\* at its end changes no project file and its failure is not returned
AndroidAddInitializationCodeAt(f, buildGradlePath) ==
    IF buildGradlePath = NoPath THEN Mutated(f, ErrNoBuildGradle)
    ELSE Mutated(patchProjectAndMainActivity(patchBuildGradle(f, buildGradlePath)), Nil)

AndroidAddInitializationCode(f) == AndroidAddInitializationCodeAt(f, findBuildGradle(f))

\* what ui.SuccessMsg, ui.WarningMsg and ui.InfoMsg print: the kind and the text
SuccessMsg(text) == <<"success", text>>
WarningMsg(text) == <<"warning", text>>
InfoMsg(text) == <<"info", text>>

\* what the app-level dependency patch prints: a success message when it
\* writes the file, nothing when the file mentions google-services
patchBuildGradleMessages(f, buildGradlePath) ==
    IF Contains(f[buildGradlePath], <<"google-services">>) THEN <<>>
    ELSE <<SuccessMsg("Added Google Services plugin to: ")>>

\* what addClasspathToBuildGradle prints: a success message when it writes
\* the file, nothing when the marker is present or the anchor is missing
addClasspathMessages(f, projectBuildGradlePath) ==
    IF /\ projectBuildGradlePath # NoPath
       /\ ~Contains(f[projectBuildGradlePath], <<"google-services">>)
       /\ Contains(f[projectBuildGradlePath], <<"dependencies {">>)
    THEN <<SuccessMsg("Added Google Services classpath to: ")>>
    ELSE <<>>

\* the messages of the project-level patch, which sees the directory the
\* app-level patch left
patchProjectBuildGradleMessages(f) == addClasspathMessages(f, findProjectBuildGradle(f))

\* what the dependency patches of AndroidPlatform.AddInitializationCode print
AndroidDependencyMessagesAt(f, buildGradlePath) ==
    IF buildGradlePath = NoPath THEN <<>>
    ELSE patchBuildGradleMessages(f, buildGradlePath)
         \o patchProjectBuildGradleMessages(patchBuildGradle(f, buildGradlePath))

AndroidDependencyMessages(f) == AndroidDependencyMessagesAt(f, findBuildGradle(f))

(***************************************************************************)
(* The iOS source mutator (IOSPlatform.AddInitializationCode).             *)
(***************************************************************************)
\* findPodfile: the first candidate that exists
findPodfile(f) ==
    IF fileExists(f, <<"Podfile">>) THEN <<"Podfile">>
    ELSE IF fileExists(f, <<"ios", "Podfile">>) THEN <<"ios", "Podfile">>
    ELSE NoPath

\* the loop of addFirebasePods: the two pod lines follow every line that
\* holds both "target" and "do"
RECURSIVE podLines(_)
podLines(lines) ==
    IF lines = <<>> THEN <<>>
    ELSE <<Head(lines)>>
         \o (IF Contains(Head(lines), <<"target">>) /\ Contains(Head(lines), <<"do">>)
             THEN << <<"  ", "pod '", "Firebase/Core", "'">>,
                     <<"  ", "pod '", "Firebase/Analytics", "'">> >>
             ELSE <<>>)
         \o podLines(Tail(lines))

\* addFirebasePods, skipped when the Podfile mentions Firebase/Core
addFirebasePods(f, podfilePath) ==
    IF Contains(f[podfilePath], <<"Firebase/Core">>) THEN f
    ELSE WriteFile(f, podfilePath, Join(podLines(Split(f[podfilePath]))))

\* the line test of checkFirebaseAppDelegateProxy: a line that names the key,
\* followed by a line that holds a false value
proxyDisabledIn(lines) ==
    \E i \in 1..(Len(lines) - 1) :
        /\ Contains(lines[i], <<"FirebaseAppDelegateProxyEnabled">>)
        /\ \/ Contains(TrimSpace(lines[i + 1]), <<"<false/>">>)
           \/ Contains(TrimSpace(lines[i + 1]), <<"<false></false>">>)

\* checkFirebaseAppDelegateProxy: false when one of the three Info.plist
\* files disables the proxy, true otherwise
checkFirebaseAppDelegateProxy(f) ==
    ~\E file \in {<<"ios", "Runner", "Info.plist">>, <<"Info.plist">>,
                  <<"Runner", "Info.plist">>} :
        /\ ReadOK(f, file)
        /\ Contains(f[file], <<"FirebaseAppDelegateProxyEnabled">>)
        /\ proxyDisabledIn(Split(f[file]))

\* the import step of addSwiftFirebaseInitialization
addSwiftFirebaseCoreImport(contentStr) ==
    IF Contains(contentStr, <<"import Firebase", "Core">>) THEN contentStr
    ELSE IF Contains(contentStr, <<"import Firebase">>)
    THEN Replace1(contentStr, <<"import Firebase">>, <<"import Firebase", "Core">>)
    ELSE IF Contains(contentStr, <<"import UIKit">>)
    THEN Replace1(contentStr, <<"import UIKit">>,
                  <<"import UIKit", NL, "import Firebase", "Core">>)
    ELSE <<"import Firebase", "Core", NL>> \o contentStr

\* the signature addSwiftFirebaseInitialization looks for, on one line
swiftMethod ==
    <<"func application(_ application: UIApplication,", " ",
      "didFinishLaunchingWithOptions",
      " launchOptions: [UIApplication.LaunchOptionsKey: Any]?) -> Bool {">>

\* the call step of addSwiftFirebaseInitialization
addSwiftConfigure(contentStr) ==
    IF Contains(contentStr, <<"didFinishLaunchingWithOptions">>)
    THEN Replace1(contentStr, swiftMethod,
                  swiftMethod \o <<NL, "        ", "FirebaseApp.configure()">>)
    ELSE contentStr

\* the methods addSwiftDelegateMethods inserts
swiftDelegateMethods ==
    <<NL, "    ", "// MARK: - Firebase Push Notification Delegate Methods", NL,
      "    ", "func application(_ application: UIApplication,", " ",
      "didRegisterForRemoteNotificationsWithDeviceToken deviceToken: Data) {", NL,
      "        ", "Messaging.messaging().apnsToken = deviceToken", NL,
      "    ", "}", NL, "    ", NL,
      "    ", "func application(_ application: UIApplication,", " ",
      "didFailToRegisterForRemoteNotificationsWithError error: Error) {", NL,
      "        ", "print(\"Failed to register for remote notifications: \\(error)\")", NL,
      "    ", "}", NL, "    ", NL,
      "    ", "func application(_ application: UIApplication,", " ",
      "didReceiveRemoteNotification userInfo: [AnyHashable: Any]) {", NL,
      "        ", "// Handle background notification", NL,
      "    ", "}", NL, "    ", NL,
      "    ", "func application(_ application: UIApplication,", " ", NL,
      "                     ", "didReceiveRemoteNotification userInfo: [AnyHashable: Any],",
      " ", NL,
      "                     ",
      "fetchCompletionHandler completionHandler: @escaping (UIBackgroundFetchResult) -> Void) {",
      NL,
      "        ", "// Handle background notification with completion handler", NL,
      "        ", "completionHandler(.newData)", NL,
      "    ", "}">>

\* the import step of addSwiftDelegateMethods
addSwiftMessagingImport(contentStr) ==
    IF Contains(contentStr, <<"import Firebase", "Messaging">>) THEN contentStr
    ELSE Replace1(contentStr, <<"import Firebase">>,
                  <<"import Firebase", NL, "import Firebase", "Messaging">>)

\* the insertion step of addSwiftDelegateMethods: before the last "}"
insertSwiftDelegateMethods(contentStr) ==
    IF /\ \/ Contains(contentStr, <<"@UIApplicationMain">>)
          \/ Contains(contentStr, <<"class AppDelegate">>)
       /\ LastIndex(contentStr, <<"}">>) # -1
    THEN InsertAt(contentStr, LastIndex(contentStr, <<"}">>), swiftDelegateMethods \o <<NL>>)
    ELSE contentStr

addSwiftDelegateMethods(contentStr) ==
    insertSwiftDelegateMethods(addSwiftMessagingImport(contentStr))

\* the content addSwiftFirebaseInitialization writes when the marker is absent
swiftInitialized(contentStr, proxyEnabled) ==
    IF proxyEnabled THEN addSwiftConfigure(addSwiftFirebaseCoreImport(contentStr))
    ELSE addSwiftDelegateMethods(addSwiftConfigure(addSwiftFirebaseCoreImport(contentStr)))

\* addSwiftFirebaseInitialization: nothing is written when the marker is there
addSwiftFirebaseInitialization(f, appDelegatePath, proxyEnabled) ==
    IF Contains(f[appDelegatePath], <<"FirebaseApp.configure()">>) THEN f
    ELSE WriteFile(f, appDelegatePath, swiftInitialized(f[appDelegatePath], proxyEnabled))

\* the import step of addObjCFirebaseInitialization
addObjCFirebaseCoreImport(contentStr) ==
    IF \/ Contains(contentStr, <<"@import FirebaseCore;">>)
       \/ Contains(contentStr, <<"#import <FirebaseCore/FirebaseCore.h>">>)
    THEN contentStr
    ELSE IF Contains(contentStr, <<"@import Firebase;">>)
    THEN Replace1(contentStr, <<"@import Firebase;">>, <<"@import FirebaseCore;">>)
    ELSE IF Contains(contentStr, <<"#import <Firebase/Firebase.h>">>)
    THEN Replace1(contentStr, <<"#import <Firebase/Firebase.h>">>,
                  <<"#import <FirebaseCore/FirebaseCore.h>">>)
    ELSE IF Contains(contentStr, <<"#import \"AppDelegate.h\"">>)
    THEN Replace1(contentStr, <<"#import \"AppDelegate.h\"">>,
                  <<"#import \"AppDelegate.h\"", NL, "@import FirebaseCore;">>)
    ELSE <<"@import FirebaseCore;", NL>> \o contentStr

\* the signature addObjCFirebaseInitialization looks for, on one line
objcMethod ==
    <<"- (BOOL)application:(UIApplication *)application", " ",
      "didFinishLaunchingWithOptions", ":(NSDictionary *)launchOptions {">>

\* the call step of addObjCFirebaseInitialization
addObjCConfigure(contentStr) ==
    IF Contains(contentStr, <<"didFinishLaunchingWithOptions">>)
    THEN Replace1(contentStr, objcMethod,
                  objcMethod \o <<NL, "    ", "[FIRApp configure]", ";">>)
    ELSE contentStr

\* the methods addObjCDelegateMethods inserts
objcDelegateMethods ==
    <<NL, "#pragma mark - Firebase Push Notification Delegate Methods", NL, NL,
      "- (void)application:(UIApplication *)application", " ", NL,
      "didRegisterForRemoteNotificationsWithDeviceToken:(NSData *)deviceToken {", NL,
      "    ", "[FIRMessaging messaging].APNSToken = deviceToken;", NL, "}", NL, NL,
      "- (void)application:(UIApplication *)application", " ",
      "didFailToRegisterForRemoteNotificationsWithError:(NSError *)error {", NL,
      "    ", "NSLog(@\"Failed to register for remote notifications: %@\", error);", NL,
      "}", NL, NL,
      "- (void)application:(UIApplication *)application", " ",
      "didReceiveRemoteNotification:(NSDictionary *)userInfo {", NL,
      "    ", "// Handle background notification", NL, "}", NL, NL,
      "- (void)application:(UIApplication *)application", NL,
      "                     ", "didReceiveRemoteNotification:(NSDictionary *)userInfo", NL,
      "                           ",
      "fetchCompletionHandler:(void (^)(UIBackgroundFetchResult))completionHandler {", NL,
      "    ", "// Handle background notification with completion handler", NL,
      "    ", "completionHandler(UIBackgroundFetchResultNewData);", NL, "}">>

\* the import step of addObjCDelegateMethods
addObjCMessagingImport(contentStr) ==
    IF \/ Contains(contentStr, <<"@import FirebaseMessaging;">>)
       \/ Contains(contentStr, <<"#import <FirebaseMessaging/FirebaseMessaging.h>">>)
    THEN contentStr
    ELSE Replace1(contentStr, <<"@import Firebase;">>,
                  <<"@import Firebase;", NL, "@import FirebaseMessaging;">>)

\* the insertion step of addObjCDelegateMethods: before the last "@end"
insertObjCDelegateMethods(contentStr) ==
    IF Contains(contentStr, <<"@end">>)
    THEN InsertAt(contentStr, LastIndex(contentStr, <<"@end">>),
                  objcDelegateMethods \o <<NL, NL>>)
    ELSE contentStr

addObjCDelegateMethods(contentStr) ==
    insertObjCDelegateMethods(addObjCMessagingImport(contentStr))

\* the content addObjCFirebaseInitialization writes when the marker is absent
objcInitialized(contentStr, proxyEnabled) ==
    IF proxyEnabled THEN addObjCConfigure(addObjCFirebaseCoreImport(contentStr))
    ELSE addObjCDelegateMethods(addObjCConfigure(addObjCFirebaseCoreImport(contentStr)))

\* addObjCFirebaseInitialization: nothing is written when the marker is there
addObjCFirebaseInitialization(f, appDelegatePath, proxyEnabled) ==
    IF Contains(f[appDelegatePath], <<"[FIRApp configure]">>) THEN f
    ELSE WriteFile(f, appDelegatePath, objcInitialized(f[appDelegatePath], proxyEnabled))

ErrUnsupported == <<"unsupported AppDelegate file type: ">>

\* addFirebaseInitialization on the AppDelegate found or created
addFirebaseInitialization(f, appDelegatePath) ==
    IF PathContains(appDelegatePath, ".swift")
    THEN Mutated(addSwiftFirebaseInitialization(f, appDelegatePath,
                                                checkFirebaseAppDelegateProxy(f)), Nil)
    ELSE IF PathContains(appDelegatePath, ".m")
    THEN Mutated(addObjCFirebaseInitialization(f, appDelegatePath,
                                               checkFirebaseAppDelegateProxy(f)), Nil)
    ELSE Mutated(f, ErrUnsupported)

\* findAppDelegate: AppDelegate.swift, else AppDelegate.m
findAppDelegate(f) == firstFound(findFile(f, "AppDelegate.swift"), findFile(f, "AppDelegate.m"))

\* strings.TrimSuffix(filepath.Base(xcodeproj), ".xcodeproj")
ProjectNameTable == "MyApp.xcodeproj" :> "MyApp"

\* findProjectName, "" when there is no Xcode project
findProjectName(f) ==
    IF findFile(f, "*.xcodeproj") # NoPath
    THEN ProjectNameTable[Base(findFile(f, "*.xcodeproj"))]
    ELSE ""

\* isSwiftProject: Swift files decide, then Objective-C files; both outcomes
\* of the Podfile check that follows answer true
isSwiftProject(f) ==
    \/ findFile(f, "*.swift") # NoPath
    \/ ~(findFile(f, "*.m") # NoPath \/ findFile(f, "*.h") # NoPath)

\* determineAppDelegatePath for a project name; <<>> is the current directory
determineAppDelegatePathFor(f, projectName) ==
    IF projectName # "" /\ fileExists(f, <<"ios", projectName>>) THEN <<"ios", projectName>>
    ELSE IF projectName # "" /\ fileExists(f, <<projectName>>) THEN <<projectName>>
    ELSE IF fileExists(f, <<"ios">>) THEN <<"ios">>
    ELSE <<>>

determineAppDelegatePath(f) == determineAppDelegatePathFor(f, findProjectName(f))

\* the first test of isSwiftUIProject, on the App file found
isSwiftUIApp(f, appFile) ==
    /\ appFile # NoPath
    /\ ReadOK(f, appFile)
    /\ Contains(f[appFile], <<"import SwiftUI">>)
    /\ Contains(f[appFile], <<"@main">>)

\* isSwiftUIProject: a SwiftUI App file, or any Swift file importing SwiftUI
isSwiftUIProject(f) ==
    \/ isSwiftUIApp(f, findFile(f, "*App.swift"))
    \/ \E p \in DOMAIN f :
          /\ Base(p) \in GlobTable["*.swift"]
          /\ ReadOK(f, p)
          /\ Contains(f[p], <<"import SwiftUI">>)

\* the body both Swift templates give didFinishLaunchingWithOptions and the
\* scene methods that follow it
swiftTemplateMethods(available) ==
    <<"    ", "func application(_ application: UIApplication,", NL,
      "                     ", "didFinishLaunchingWithOptions",
      " launchOptions: [UIApplication.LaunchOptionsKey: Any]?) -> Bool {", NL,
      "        ", "// Configure Firebase", NL,
      "        ", "FirebaseApp.configure()", NL,
      "        ", NL,
      "        ", "// Override point for customization after application launch.", NL,
      "        ", "return true", NL,
      "    ", "}", NL, NL,
      "    ", "// MARK: UISceneSession Lifecycle (iOS 13+)", NL>>
    \o available \o
    <<"    ", "func application(_ application: UIApplication,", NL,
      "                     ",
      "configurationForConnecting connectingSceneSession: UISceneSession,", NL,
      "                     ",
      "options: UIScene.ConnectionOptions) -> UISceneConfiguration {", NL,
      "        ", "return UISceneConfiguration(name: \"Default Configuration\", sessionRole: connectingSceneSession.role)", NL,
      "    ", "}", NL, NL>>
    \o available \o
    <<"    ", "func application(_ application: UIApplication,", " ",
      "didDiscardSceneSessions sceneSessions: Set<UISceneSession>) {", NL,
      "        ", "// Called when the user discards a scene session.", NL,
      "    ", "}", NL, "}", NL>>

\* swiftContent of createSwiftAppDelegate
swiftContent ==
    <<"import UIKit", NL, "import Firebase", "Core", NL, NL, "@main", NL,
      "class AppDelegate", ": UIResponder, UIApplicationDelegate {", NL, NL,
      "    ", "var window: UIWindow?", NL, NL>>
    \o swiftTemplateMethods(<<"    ", "@available(iOS 13.0, *)", NL>>)

\* swiftUIAppDelegateContent of createSwiftUIAppDelegateIntegration
swiftUIAppDelegateContent ==
    <<"import UIKit", NL, "import Firebase", "Core", NL, NL,
      "class AppDelegate", ": NSObject, UIApplicationDelegate {", NL, "    ", NL>>
    \o swiftTemplateMethods(<<>>)

\* headerContent and implementationContent of createObjCAppDelegate
headerContent ==
    <<"#import <UIKit/UIKit.h>", NL, NL,
      "@interface AppDelegate : UIResponder <UIApplicationDelegate>", NL, NL,
      "@property (strong, nonatomic) UIWindow *window;", NL, NL, "@end", NL>>

implementationContent ==
    <<"#import \"AppDelegate.h\"", NL, "@import FirebaseCore;", NL, NL,
      "@implementation AppDelegate", NL, NL>>
    \o objcMethod \o
    <<NL, "    ", "// Configure Firebase", NL,
      "    ", "[FIRApp configure]", ";", NL, "    ", NL,
      "    ", "// Override point for customization after application launch.", NL,
      "    ", "return YES;", NL, "}", NL, NL,
      "#pragma mark - UISceneSession lifecycle (iOS 13+)", NL, NL,
      "- (UISceneConfiguration *)application:(UIApplication *)application", " ", NL,
      "                 ",
      "configurationForConnectingSceneSession:(UISceneSession *)connectingSceneSession",
      " ", NL,
      "                                                ",
      "options:(UISceneConnectionOptions *)options API_AVAILABLE(ios(13.0)) {", NL,
      "    ", "return [[UISceneConfiguration alloc] initWithName:@\"Default Configuration\" sessionRole:connectingSceneSession.role];", NL,
      "}", NL, NL,
      "- (void)application:(UIApplication *)application", " ", NL,
      "    ", "didDiscardSceneSessions:(NSSet<UISceneSession *> *)sceneSessions API_AVAILABLE(ios(13.0)) {", NL,
      "    ", "// Called when the user discards a scene session.", NL,
      "}", NL, NL, "@end", NL>>

\* what createAppDelegate returns: the directory it leaves and the path
Created(f, path) == [fs |-> f, path |-> path]

\* createSwiftAppDelegate: an existing file is left alone
createSwiftAppDelegate(f, projectPath) ==
    IF fileExists(f, projectPath \o <<"AppDelegate.swift">>)
    THEN Created(f, projectPath \o <<"AppDelegate.swift">>)
    ELSE Created(WriteFile(f, projectPath \o <<"AppDelegate.swift">>, swiftContent),
                 projectPath \o <<"AppDelegate.swift">>)

\* createObjCAppDelegate: the header is written whenever AppDelegate.m is missing
createObjCAppDelegate(f, projectPath) ==
    IF fileExists(f, projectPath \o <<"AppDelegate.m">>)
    THEN Created(f, projectPath \o <<"AppDelegate.m">>)
    ELSE Created(WriteFile(WriteFile(f, projectPath \o <<"AppDelegate.h">>, headerContent),
                           projectPath \o <<"AppDelegate.m">>, implementationContent),
                 projectPath \o <<"AppDelegate.m">>)

\* the line addDelegateAdaptorToSwiftUIApp and createSwiftUIAppFile declare
adaptorLine ==
    <<"    ", "@UIApplicationDelegateAdaptor", "(", "App", "Delegate.self) var delegate">>

\* swiftUIAppContent of createSwiftUIAppFile for the project name MyApp
swiftUIAppContent ==
    <<"import SwiftUI", NL, NL, "@main", NL,
      "struct", " MyApp", "App", ": ", "App", " ", "{", NL>>
    \o adaptorLine \o
    <<NL, "    ", NL, "    ", "var body: some Scene ", "{", NL,
      "        ", "WindowGroup ", "{", NL, "            ", "ContentView()", NL,
      "        ", "}", NL, "    ", "}", NL, "}", NL>>

\* contentViewContent of createSwiftUIAppFile
contentViewContent ==
    <<"import SwiftUI", NL, NL, "struct", " ContentView: View ", "{", NL,
      "    ", "var body: some View ", "{", NL,
      "        ", "Text(\"Hello, world!\")", NL, "    ", "}", NL, "}", NL>>

\* createSwiftUIAppFile: <name>App.swift and, when missing, ContentView.swift
createSwiftUIAppFile(f, projectPath) ==
    IF fileExists(f, projectPath \o <<"MyAppApp.swift">>) THEN f
    ELSE IF fileExists(f, projectPath \o <<"ContentView.swift">>)
    THEN WriteFile(f, projectPath \o <<"MyAppApp.swift">>, swiftUIAppContent)
    ELSE WriteFile(WriteFile(f, projectPath \o <<"MyAppApp.swift">>, swiftUIAppContent),
                   projectPath \o <<"ContentView.swift">>, contentViewContent)

\* the loop of addDelegateAdaptorToSwiftUIApp from line i on: out holds the
\* lines copied so far, delegateAdded whether the adaptor went in
RECURSIVE adaptorLines(_, _, _, _)
adaptorLines(lines, i, delegateAdded, out) ==
    IF i > Len(lines) THEN [lines |-> out, delegateAdded |-> delegateAdded]
    ELSE IF /\ ~delegateAdded
            /\ Contains(lines[i], <<"struct">>) /\ Contains(lines[i], <<"App">>)
            /\ Contains(lines[i], <<"{">>)
    THEN adaptorLines(lines, i + 1, TRUE, out \o <<lines[i], adaptorLine, <<>> >>)
    ELSE IF /\ ~delegateAdded
            /\ Contains(lines[i], <<"struct">>) /\ Contains(lines[i], <<"App">>)
            /\ i + 1 <= Len(lines) /\ Contains(lines[i + 1], <<"{">>)
    THEN adaptorLines(lines, i + 2, TRUE,
                      out \o <<lines[i], lines[i + 1], adaptorLine, <<>> >>)
    ELSE adaptorLines(lines, i + 1, delegateAdded, out \o <<lines[i]>>)

\* the end of addDelegateAdaptorToSwiftUIApp: the file is written only when
\* the adaptor went in
writeAdaptor(f, appFile, r) ==
    IF r.delegateAdded THEN WriteFile(f, appFile, Join(r.lines)) ELSE f

\* addDelegateAdaptorToSwiftUIApp on the App file found
addDelegateAdaptorTo(f, projectPath, appFile) ==
    IF appFile = NoPath THEN createSwiftUIAppFile(f, projectPath)
    ELSE IF ~ReadOK(f, appFile) THEN f
    ELSE IF Contains(f[appFile], <<"@UIApplicationDelegateAdaptor">>) THEN f
    ELSE IF Contains(f[appFile], <<"@main">>)
    THEN writeAdaptor(f, appFile, adaptorLines(Split(f[appFile]), 1, FALSE, <<>>))
    ELSE f

addDelegateAdaptorToSwiftUIApp(f, projectPath) ==
    addDelegateAdaptorTo(f, projectPath, findFile(f, "*App.swift"))

\* createSwiftUIAppDelegateIntegration: the AppDelegate, then the adaptor; a
\* failure to add the adaptor is reported and not returned
createSwiftUIAppDelegateIntegration(f, projectPath) ==
    IF fileExists(f, projectPath \o <<"AppDelegate.swift">>)
    THEN Created(f, projectPath \o <<"AppDelegate.swift">>)
    ELSE Created(addDelegateAdaptorToSwiftUIApp(
                     WriteFile(f, projectPath \o <<"AppDelegate.swift">>,
                               swiftUIAppDelegateContent),
                     projectPath),
                 projectPath \o <<"AppDelegate.swift">>)

createAppDelegateAt(f, projectPath) ==
    IF isSwiftProject(f)
    THEN IF isSwiftUIProject(f) THEN createSwiftUIAppDelegateIntegration(f, projectPath)
         ELSE createSwiftAppDelegate(f, projectPath)
    ELSE createObjCAppDelegate(f, projectPath)

createAppDelegate(f) == createAppDelegateAt(f, determineAppDelegatePath(f))

\* hasSwiftPackages: Package.swift, .swiftpm, or a Package.resolved inside
\* the Xcode project
hasSwiftPackagesIn(f, xcodeproj) ==
    \/ fileExists(f, <<"Package.swift">>)
    \/ fileExists(f, <<".swiftpm">>)
    \/ /\ xcodeproj # NoPath
       /\ fileExists(f, xcodeproj \o <<"project.xcworkspace", "xcshareddata", "swiftpm",
                                      "Package.resolved">>)

hasSwiftPackages(f) == hasSwiftPackagesIn(f, findFile(f, "*.xcodeproj"))

\* shouldUseSPM: an Xcode project and no Podfile
shouldUseSPM(f) == findFile(f, "*.xcodeproj") # NoPath /\ findPodfile(f) = NoPath

\* what "pod install" can do when AddInitializationCode ends
PodOutcomes == {"no pod command", "installed", "install failed"}
ErrPodInstall == <<"pod install: exit status 1">>

\* runPodInstall: a missing pod command is reported and not returned
runPodInstall(pod) == IF pod = "install failed" THEN ErrPodInstall ELSE Nil

\* runPackageManagerCommands: the Swift Package Manager branches only print
runPackageManagerCommands(f, pod) ==
    IF findPodfile(f) # NoPath THEN runPodInstall(pod) ELSE Nil

\* the AppDelegate AddInitializationCode works on: the one found, else a new one
ensureAppDelegate(f, appDelegatePath) ==
    IF appDelegatePath = NoPath THEN createAppDelegate(f) ELSE Created(f, appDelegatePath)

\* the end of AddInitializationCode: the package manager runs when the
\* dependency step did something and the initialization returned no error
finishInitialization(m, managed, pod) ==
    IF m.err = Nil /\ managed THEN Mutated(m.fs, runPackageManagerCommands(m.fs, pod))
    ELSE m

\* AddInitializationCode after the dependency step
initializeAppDelegate(f, managed, pod) ==
    finishInitialization(
        addFirebaseInitialization(ensureAppDelegate(f, findAppDelegate(f)).fs,
                                  ensureAppDelegate(f, findAppDelegate(f)).path),
        managed, pod)

\* setupSPMPackageSwift and setupSPMFirebase return nil for these replies
\* (lower-cased), and an error for any other
acceptsPackageSwift(resp) == resp \in {"yes", "y"}
acceptsSPMFirebase(resp) == resp \in {"1", "yes", "y"}

\* IOSPlatform.AddInitializationCode on the directory f: resp is what the
\* user replies to the Swift Package Manager prompt, pod what pod install does
IOSAddInitializationCode(f, resp, pod) ==
    IF findPodfile(f) # NoPath
    THEN initializeAppDelegate(addFirebasePods(f, findPodfile(f)), TRUE, pod)
    ELSE IF hasSwiftPackages(f)
    THEN IF acceptsPackageSwift(resp) THEN initializeAppDelegate(f, TRUE, pod)
         ELSE Mutated(f, Nil)
    ELSE IF shouldUseSPM(f)
    THEN IF acceptsSPMFirebase(resp) THEN initializeAppDelegate(f, TRUE, pod)
         ELSE Mutated(f, Nil)
    ELSE initializeAppDelegate(f, FALSE, pod)

\* what addFirebasePods prints: a success message whenever the Podfile does
\* not mention Firebase/Core, whether or not a target line was found
addFirebasePodsMessages(f, podfilePath) ==
    IF Contains(f[podfilePath], <<"Firebase/Core">>) THEN <<>>
    ELSE <<SuccessMsg("Added Firebase pods to: ")>>

\* what the dependency patch of IOSPlatform.AddInitializationCode prints
IOSDependencyMessages(f) ==
    IF findPodfile(f) # NoPath THEN addFirebasePodsMessages(f, findPodfile(f)) ELSE <<>>

(***************************************************************************)
(* The specification of the source mutators: AddInitializationCode run     *)
(* again and again on an Android or an iOS project directory.              *)
(***************************************************************************)
MaxMutations == 2

\* app-level build files: a plugins block or the apply syntax, untouched or
\* already carrying the Google Services plugin
AppGradlePlugins ==
    <<"plugins {", NL, "    ", "id 'com.android.application'", NL, "}", NL, NL,
      "dependencies {", NL, "}", NL>>
AppGradleApply ==
    <<"apply plugin: 'com.android.application'", NL, NL, "dependencies {", NL, "}", NL>>
AppGradles ==
    {AppGradlePlugins, AppGradleApply,
     addGoogleServicesPlugin(AppGradlePlugins), addGoogleServicesPlugin(AppGradleApply)}

\* project-level build files: a buildscript block with or without the
\* classpath, one without a dependencies block, and one without buildscript
ProjectGradle(classpath) ==
    <<"buildscript", " {", NL, "    ", "dependencies {", NL,
      "        ", "classpath 'com.android.tools.build:gradle:7.4.2'">>
    \o classpath \o <<NL, "    ", "}", NL, "}", NL>>
ProjectGradles ==
    {ProjectGradle(<<>>),
     ProjectGradle(<<NL, "        ", "classpath 'com.google.gms:", "google-services",
                     ":4.3.15'">>),
     <<"buildscript", " {", NL, "}", NL>>,
     <<"plugins {", NL, "    ", "id 'com.android.application' version '7.4.2' apply false",
       NL, "}", NL>>}

\* the build files of a project: app and project level side by side, both
\* under android/, a single build.gradle, or none
GradleLayouts ==
    {<<"app", "build.gradle">> :> a @@ <<"build.gradle">> :> p :
        a \in AppGradles, p \in ProjectGradles \cup {Absent}}
    \cup {<<"android", "app", "build.gradle">> :> a @@ <<"android", "build.gradle">> :> p :
            a \in {AppGradlePlugins, AppGradleApply},
            p \in {ProjectGradle(<<>>), Absent}}
    \cup {<<"build.gradle">> :> g : g \in AppGradles \cup ProjectGradles \cup {Absent}}

\* the import lines of a MainActivity
ImportLine(name, semi) == <<name>> \o semi \o <<NL>>
ActivityImports(semi) ==
    {<<>>,
     ImportLine("import android.os.Bundle", semi),
     ImportLine("import androidx.appcompat.app.AppCompatActivity", semi),
     ImportLine("import android.os.Bundle", semi)
        \o ImportLine("import com.google.firebase.FirebaseApp", semi),
     ImportLine("import com.google.firebase.FirebaseApp", semi)}

\* the initialization call as a line of its own
InitializeAppLine(semi) ==
    <<"        ", "FirebaseApp.initializeApp", "(this)">> \o semi \o <<NL>>

\* an onCreate method: header is its signature, arg what it hands to
\* super.onCreate, init where the initialization call stands, if anywhere
OnCreate(header, arg, init, semi) ==
    <<"    ">> \o header \o <<NL>>
    \o (IF init = "before" THEN InitializeAppLine(semi) ELSE <<>>)
    \o <<"        ", "super.", "onCreate", arg>> \o semi \o <<NL>>
    \o (IF init = "after" THEN InitializeAppLine(semi) ELSE <<>>)
    \o <<"        ", "setContentView(R.layout.activity_main)">> \o semi \o <<NL>>
    \o (IF init = "last" THEN InitializeAppLine(semi) ELSE <<>>)
    \o <<"    ", "}", NL>>

ActivityMethods(header, semi) ==
    {<<>>} \cup {OnCreate(header, arg, init, semi) :
                    arg \in {"(savedInstanceState)", "(state)"},
                    init \in {"none", "after", "before", "last"}}

Activity(imports, methods, semi) ==
    <<"package", " com.example.app">> \o semi \o <<NL, NL>> \o imports
    \o <<NL, "class MainActivity : AppCompatActivity() {", NL>> \o methods \o <<"}", NL>>

KotlinHeader == <<"override fun ", "onCreate", "(savedInstanceState: Bundle?) {">>
JavaHeader == <<"protected void ", "onCreate", "(Bundle savedInstanceState) {">>

KotlinActivities ==
    {Activity(i, m, <<>>) : i \in ActivityImports(<<>>),
                            m \in ActivityMethods(KotlinHeader, <<>>)}
JavaActivities ==
    {Activity(i, m, <<";">>) : i \in ActivityImports(<<";">>),
                               m \in ActivityMethods(JavaHeader, <<";">>)}

\* a fresh Kotlin activity: the Bundle import and a standard onCreate
FreshKotlinActivity ==
    Activity(ImportLine("import android.os.Bundle", <<>>),
             OnCreate(KotlinHeader, "(savedInstanceState)", "none", <<>>), <<>>)

MainActivityJava == <<"app", "src", "main", "java", "MainActivity.java">>
MainActivityKt == <<"app", "src", "main", "java", "MainActivity.kt">>

\* the activities of a project: none, one in Kotlin, or one in Java with or
\* without a Kotlin one beside it
ActivityLayouts ==
    {MainActivityKt :> k : k \in KotlinActivities \cup {Absent}}
    \cup {MainActivityJava :> j @@ MainActivityKt :> k :
            j \in JavaActivities, k \in {Absent, FreshKotlinActivity}}

\* the Android projects: every build layout with a few activities, and every
\* activity with two build layouts and with a build file that holds the plugin
AndroidProjects ==
    {MkFs(g @@ a) :
        g \in GradleLayouts,
        a \in {MainActivityKt :> k : k \in {Absent, FreshKotlinActivity}}}
    \cup {MkFs(g @@ a) :
            g \in {<<"app", "build.gradle">> :> AppGradlePlugins,
                   <<"android", "app", "build.gradle">> :> AppGradleApply
                   @@ <<"android", "build.gradle">> :> ProjectGradle(<<>>)},
            a \in ActivityLayouts}
    \cup {MkFs(g @@ a) :
            g \in {<<"app", "build.gradle">> :> addGoogleServicesPlugin(AppGradlePlugins)},
            a \in ActivityLayouts}

\* Podfiles: one target, two targets, and one target with the Firebase pods
PodfileOneTarget ==
    <<"platform :ios, '13.0'", NL, NL, "target", " 'MyApp' ", "do", NL,
      "  ", "use_frameworks!", NL, "end", NL>>
PodfileTwoTargets ==
    PodfileOneTarget \o <<NL, "target", " 'MyAppTests' ", "do", NL, "end", NL>>
PodfileNoTarget == <<"platform :ios, '13.0'", NL, "use_frameworks!", NL>>
PodfileLayouts ==
    {<<"Podfile">> :> p :
        p \in {PodfileOneTarget, Join(podLines(Split(PodfileOneTarget))), PodfileNoTarget}}
    \cup {<<"ios", "Podfile">> :> PodfileTwoTargets}

\* an Info.plist that sets FirebaseAppDelegateProxyEnabled to value
ProxyPlist(value) ==
    <<"<dict>", NL, "    ", "<key>", "FirebaseAppDelegateProxyEnabled", "</key>", NL,
      "    ", value, NL, "</dict>", NL>>
PlistLayouts ==
    {<<"Info.plist">> :> p : p \in {Absent, ProxyPlist("<false/>"), ProxyPlist("<true/>")}}

\* what tells the Swift Package Manager branches apart: a Package.swift and
\* an Xcode project, each present or not
PackageLayouts ==
    {<<"Package.swift">> :> p @@ <<"MyApp.xcodeproj", "project.pbxproj">> :> x :
        p \in {Absent, <<"// swift-tools-version:5.7", NL>>},
        x \in {Absent, PbxprojWith(FileId("pbxproj"))}}

\* the replies to the setup prompts that are told apart
Responses == {"yes", "1", "no"}

\* the didFinishLaunchingWithOptions method of an AppDelegate: sig is its
\* signature, call the configure line or nothing
LaunchMethod(sig, call, rest) == sig \o <<NL>> \o call \o rest
SwiftLaunchMethod(sig, call) ==
    <<"    ">> \o LaunchMethod(sig, call, <<"        ", "return true", NL, "    ", "}", NL>>)
ObjCLaunchMethod(sig, call) ==
    LaunchMethod(sig, call, <<"    ", "return YES;", NL, "}", NL>>)

\* the Swift signature broken after the first parameter, as Xcode writes it
swiftMethodTwoLines ==
    <<"func application(_ application: UIApplication,", NL, "                     ",
      "didFinishLaunchingWithOptions",
      " launchOptions: [UIApplication.LaunchOptionsKey: Any]?) -> Bool {">>

SwiftImports ==
    {<<"import UIKit", NL>>,
     <<"import UIKit", NL, "import Firebase", NL>>,
     <<"import UIKit", NL, "import Firebase", "Core", NL>>,
     <<"import UIKit", NL, "import Firebase", "Messaging", NL>>,
     <<"import Foundation", NL>>}

SwiftClasses ==
    {<<"@UIApplicationMain", NL, "class AppDelegate",
       ": UIResponder, UIApplicationDelegate {", NL>>,
     <<"@main", NL, "final class Delegate: UIResponder, UIApplicationDelegate {", NL>>}

SwiftLaunchMethods ==
    {<<>>}
    \cup {SwiftLaunchMethod(sig, call) :
            sig \in {swiftMethod, swiftMethodTwoLines},
            call \in {<<>>, <<"        ", "FirebaseApp.configure()", NL>>}}

SwiftAppDelegates ==
    {i \o <<NL>> \o c \o m \o <<"}", NL>> :
        i \in SwiftImports, c \in SwiftClasses, m \in SwiftLaunchMethods}

\* the Objective-C signature broken before the second part
objcMethodTwoLines ==
    <<"- (BOOL)application:(UIApplication *)application", NL, "    ",
      "didFinishLaunchingWithOptions", ":(NSDictionary *)launchOptions {">>

ObjCImports ==
    {<<"#import \"AppDelegate.h\"", NL>>,
     <<"#import \"AppDelegate.h\"", NL, "@import Firebase;", NL>>,
     <<"#import \"AppDelegate.h\"", NL, "#import <Firebase/Firebase.h>", NL>>,
     <<"#import \"AppDelegate.h\"", NL, "@import FirebaseCore;", NL>>,
     <<"#import <UIKit/UIKit.h>", NL>>}

ObjCLaunchMethods ==
    {<<>>}
    \cup {ObjCLaunchMethod(sig, call) :
            sig \in {objcMethod, objcMethodTwoLines},
            call \in {<<>>, <<"    ", "[FIRApp configure]", ";", NL>>}}

ObjCAppDelegates ==
    {i \o <<NL, "@implementation AppDelegate", NL, NL>> \o m \o <<NL, "@end", NL>> :
        i \in ObjCImports, m \in ObjCLaunchMethods}

\* SwiftUI App files: the brace on the struct line or on the next one, the
\* adaptor already declared, and a file without @main
SwiftUIApp(main, struct, adaptor) ==
    <<"import SwiftUI", NL, NL>> \o main \o struct \o adaptor
    \o <<"    ", "var body: some Scene ", "{", NL, "        ", "WindowGroup ", "{", NL,
         "            ", "ContentView()", NL, "        ", "}", NL, "    ", "}", NL, "}", NL>>
StructOneLine == <<"struct", " MyApp", "App", ": ", "App", " ", "{", NL>>
StructTwoLines == <<"struct", " MyApp", "App", ": ", "App", NL, "{", NL>>
SwiftUIApps ==
    {SwiftUIApp(<<"@main", NL>>, StructOneLine, <<>>),
     SwiftUIApp(<<"@main", NL>>, StructTwoLines, <<>>),
     SwiftUIApp(<<"@main", NL>>, StructOneLine, adaptorLine \o <<NL, NL>>),
     SwiftUIApp(<<>>, StructOneLine, <<>>)}

\* an AppDelegate in Swift whose launch method stands on one line
PlainSwiftAppDelegate(class) ==
    <<"import UIKit", NL, NL>> \o class \o SwiftLaunchMethod(swiftMethod, <<>>) \o <<"}", NL>>

\* the projects with an AppDelegate, in Swift or Objective-C
DelegateLayouts ==
    {<<"AppDelegate.swift">> :> s : s \in SwiftAppDelegates}
    \cup {<<"AppDelegate.m">> :> m @@ <<"AppDelegate.h">> :> headerContent :
            m \in ObjCAppDelegates}

\* a few of them, at the top and under ios/
SomeDelegateLayouts ==
    {<<"ios", "AppDelegate.swift">> :> PlainSwiftAppDelegate(c) : c \in SwiftClasses}
    \cup {<<"AppDelegate.m">> :> implementationContent @@ <<"AppDelegate.h">> :> headerContent,
          <<"AppDelegate.swift">> :> swiftContent
          @@ <<"ios", "AppDelegate.swift">> :> PlainSwiftAppDelegate(<<"class AppDelegate", " {", NL>>)}

\* the projects without an AppDelegate, and what createAppDelegate looks at
NoDelegateLayouts ==
    {<<"MyAppApp.swift">> :> a @@ <<"ContentView.swift">> :> v
     @@ <<"AppDelegate.h">> :> h @@ <<"main.swift">> :> s :
        a \in SwiftUIApps \cup {Absent}, v \in {Absent, contentViewContent},
        h \in {Absent, headerContent}, s \in {Absent, <<"import UIKit", NL>>}}

\* the iOS projects: every AppDelegate with every proxy setting and with or
\* without a Podfile; every dependency layout with a few AppDelegates and
\* with every project that has none
IOSProjects ==
    {MkFs(d @@ p @@ e) :
        d \in {<<"Podfile">> :> PodfileOneTarget, <<"Podfile">> :> Absent},
        p \in PlistLayouts, e \in DelegateLayouts}
    \cup {MkFs(d @@ p @@ e) :
            d \in PodfileLayouts \cup PackageLayouts,
            p \in {<<"Info.plist">> :> Absent, <<"Info.plist">> :> ProxyPlist("<false/>")},
            e \in SomeDelegateLayouts \cup NoDelegateLayouts}
    \cup {MkFs(d @@ e) :
            d \in {<<"Podfile">> :> Join(podLines(Split(PodfileOneTarget)))},
            e \in DelegateLayouts}

\* the setup prompts appear when there is no Podfile and the project uses
\* the Swift Package Manager or holds an Xcode project
Prompted(f) == findPodfile(f) = NoPath /\ (hasSwiftPackages(f) \/ shouldUseSPM(f))

MutInit ==
    /\ SpinIdle
    /\ projectID = IdMyProject
    /\ \/ targetPlatform = "Android" /\ fs \in AndroidProjects /\ response = "yes"
       \/ /\ targetPlatform = "iOS"
          /\ fs \in IOSProjects
          /\ response \in (IF Prompted(fs) THEN Responses ELSE {"yes"})
    /\ snaps = <<fs>>
    /\ results = <<>>
    /\ printed = <<>>
    /\ unwritable = {}
    /\ GenIdle
    /\ DetIdle
    /\ ResIdle
    /\ RegIdle
    /\ CfgIdle

\* the state after a call of AddInitializationCode that left m and whose
\* dependency patch printed msgs
Mutate(m, msgs) ==
    /\ fs' = m.fs
    /\ snaps' = Append(snaps, m.fs)
    /\ results' = Append(results, m.err)
    /\ printed' = Append(printed, msgs)

AndroidMutator ==
    /\ targetPlatform = "Android"
    /\ Len(results) < MaxMutations
    /\ Mutate(AndroidAddInitializationCode(fs), AndroidDependencyMessages(fs))
    /\ UNCHANGED <<projectID, targetPlatform, response, unwritable,
                   genVars, detVars, resVars, regVars, cfgVars, spinVars>>

IOSMutator ==
    /\ targetPlatform = "iOS"
    /\ Len(results) < MaxMutations
    /\ \E pod \in PodOutcomes :
          Mutate(IOSAddInitializationCode(fs, response, pod), IOSDependencyMessages(fs))
    /\ UNCHANGED <<projectID, targetPlatform, response, unwritable,
                   genVars, detVars, resVars, regVars, cfgVars, spinVars>>

MutNext == AndroidMutator \/ IOSMutator

SpecMutate == MutInit /\ [][MutNext]_vars

(***************************************************************************)
(* The source mutators on a directory where os.WriteFile fails on the      *)
(* paths of the set ro (a file without write permission).                  *)
(***************************************************************************)
ErrUpdateBuildGradle == <<"failed to update build.gradle: ", "permission denied">>
ErrUpdateProjectBuildGradle ==
    <<"failed to update project build.gradle: ", "permission denied">>
ErrUpdateMainActivity == <<"failed to update MainActivity: ", "permission denied">>
ErrUpdatePodfile == <<"failed to update Podfile: ", "permission denied">>

\* what a call leaves: the directory, the error and the messages of the
\* dependency patches that wrote their file
Left(f, err, msgs) == [fs |-> f, err |-> err, msgs |-> msgs]

\* the file addFirebaseImportsToMainActivity works on
findMainActivity(f) ==
    firstFound(findFile(f, "MainActivity.java"), findFile(f, "MainActivity.kt"))

\* addFirebaseImportsToMainActivity: the file found is written in every case,
\* and the failure of the write is returned
writeMainActivity(f, ro, msgs) ==
    IF findMainActivity(f) # NoPath /\ findMainActivity(f) \in ro
    THEN Left(f, ErrUpdateMainActivity, msgs)
    ELSE Left(patchMainActivityAt(f, findMainActivity(f)), Nil, msgs)

\* addClasspathToBuildGradle writes when the marker is absent and the anchor
\* present; AddInitializationCode returns its error before it looks for the
\* MainActivity
writeProjectBuildGradle(f, ro, msgs) ==
    IF /\ findProjectBuildGradle(f) \in ro
       /\ addClasspathMessages(f, findProjectBuildGradle(f)) # <<>>
    THEN Left(f, ErrUpdateProjectBuildGradle, msgs)
    ELSE writeMainActivity(patchProjectBuildGradle(f, findProjectBuildGradle(f)), ro,
                           msgs \o patchProjectBuildGradleMessages(f))

\* the mutant of AndroidAddInitializationCodeOn that goes on to the other
\* files after the write of the app-level build file failed
AndroidAddInitializationCodeOn_GoesOn(f, ro) ==
    IF findBuildGradle(f) = NoPath THEN Left(f, ErrNoBuildGradle, <<>>)
    ELSE IF /\ findBuildGradle(f) \in ro
            /\ ~Contains(f[findBuildGradle(f)], <<"google-services">>)
    THEN Left(writeProjectBuildGradle(f, ro, <<>>).fs, ErrUpdateBuildGradle, <<>>)
    ELSE writeProjectBuildGradle(patchBuildGradle(f, findBuildGradle(f)), ro,
                                 patchBuildGradleMessages(f, findBuildGradle(f)))
\* AndroidPlatform.AddInitializationCode: the failure of the write of the
\* app-level build file is returned before any other file is looked for
AndroidAddInitializationCodeOn(f, ro) ==
    IF findBuildGradle(f) = NoPath THEN Left(f, ErrNoBuildGradle, <<>>)
    ELSE IF /\ findBuildGradle(f) \in ro
            /\ ~Contains(f[findBuildGradle(f)], <<"google-services">>)
    THEN Left(f, ErrUpdateBuildGradle, <<>>)
    ELSE writeProjectBuildGradle(patchBuildGradle(f, findBuildGradle(f)), ro,
                                 patchBuildGradleMessages(f, findBuildGradle(f)))

\* IOSPlatform.AddInitializationCode when ro holds at most the Podfile:
\* addFirebasePods writes whenever the Podfile does not mention Firebase/Core
\* and its error is returned before the AppDelegate is looked for
IOSAddInitializationCodeOn(f, resp, pod, ro) ==
    IF /\ findPodfile(f) # NoPath
       /\ findPodfile(f) \in ro
       /\ ~Contains(f[findPodfile(f)], <<"Firebase/Core">>)
    THEN Left(f, ErrUpdatePodfile, <<>>)
    ELSE Left(IOSAddInitializationCode(f, resp, pod).fs,
              IOSAddInitializationCode(f, resp, pod).err,
              IOSDependencyMessages(f))

\* the files an Android run may write
AndroidWritten(f) ==
    {findBuildGradle(f), findProjectBuildGradle(f), findMainActivity(f)} \ {NoPath}

DeniedInit ==
    /\ SpinIdle
    /\ projectID = IdMyProject
    /\ response = "yes"
    /\ \/ /\ targetPlatform = "Android"
          /\ fs \in AndroidProjects
          /\ unwritable \in {{p} : p \in AndroidWritten(fs)}
       \/ /\ targetPlatform = "iOS"
          /\ fs \in {f \in IOSProjects : findPodfile(f) # NoPath}
          /\ unwritable = {findPodfile(fs)}
    /\ snaps = <<fs>>
    /\ results = <<>>
    /\ printed = <<>>
    /\ GenIdle
    /\ DetIdle
    /\ ResIdle
    /\ RegIdle
    /\ CfgIdle

AndroidMutatorDenied ==
    /\ targetPlatform = "Android"
    /\ Len(results) < MaxMutations
    /\ Mutate(AndroidAddInitializationCodeOn(fs, unwritable),
              AndroidAddInitializationCodeOn(fs, unwritable).msgs)
    /\ UNCHANGED <<projectID, targetPlatform, response, unwritable,
                   genVars, detVars, resVars, regVars, cfgVars, spinVars>>

IOSMutatorDenied ==
    /\ targetPlatform = "iOS"
    /\ Len(results) < MaxMutations
    /\ \E pod \in PodOutcomes :
          Mutate(IOSAddInitializationCodeOn(fs, response, pod, unwritable),
                 IOSAddInitializationCodeOn(fs, response, pod, unwritable).msgs)
    /\ UNCHANGED <<projectID, targetPlatform, response, unwritable,
                   genVars, detVars, resVars, regVars, cfgVars, spinVars>>

DeniedNext == AndroidMutatorDenied \/ IOSMutatorDenied

SpecMutateDenied == DeniedInit /\ [][DeniedNext]_vars

(***************************************************************************)
(* Projects (firebase.go).  What `firebase projects:list --json` answers   *)
(* is a record: kind tells a failed command, an unparsable output and a    *)
(* parsed response apart; a parsed response has a status and the projects, *)
(* each a record with the fields ProjectID and State.                      *)
(***************************************************************************)
successStatus == "success"
activeState == "ACTIVE"

ErrListProjects == <<"failed to list Firebase projects: ", "exit status 1">>
ErrParseProjects == <<"failed to parse projects response: ", "invalid character">>
ErrStatus(status) == <<"Firebase CLI returned non-success status: ", status>>

\* the loop of ListProjects that keeps the active projects
activeProjects_Unfiltered(result) == result
activeProjects(result) == SelectSeq(result, LAMBDA project : project.State = activeState)

\* what ListProjects returns: the projects and the error
Listed(projects, err) == [projects |-> projects, err |-> err]

\* ListProjects after the checks of the CLI, whose error is pre
ListProjectsChecked(pre, answer) ==
    IF pre # Nil THEN Listed(<<>>, pre)
    ELSE IF answer.kind = "fail" THEN Listed(<<>>, ErrListProjects)
    ELSE IF answer.kind = "garbage" THEN Listed(<<>>, ErrParseProjects)
    ELSE IF answer.status # successStatus THEN Listed(<<>>, ErrStatus(answer.status))
    ELSE Listed(activeProjects(answer.result), Nil)

\* ListProjects in an environment where the CLI is in the state cli and
\* projects:list answers answer
ListProjects(cli, answer) == ListProjectsChecked(checkCLIAndAuthentication(cli), answer)

ErrNotFound(id) == <<"project '">> \o id \o <<"' not found or you don't have access to it">>

\* ValidateProject on what ListProjects returned
ValidateProjectIn(id, listed) ==
    IF listed.err # Nil THEN <<"failed to validate project: ">> \o listed.err
    ELSE IF \E i \in 1..Len(listed.projects) : listed.projects[i].ProjectID = id THEN Nil
    ELSE ErrNotFound(id)

ValidateProject(id, cli, answer) == ValidateProjectIn(id, ListProjects(cli, answer))

(***************************************************************************)
(* The dependency check and the choice of the project and of the platform  *)
(* (configure.go, dependencies.go, platform.go).                           *)
(***************************************************************************)
\* PreflightCheck: the Firebase CLI is the one required dependency
ErrMissingDependency == <<"required dependency missing: ", "Firebase CLI">>
PreflightCheck(cli) == IF cli = "no cli" THEN ErrMissingDependency ELSE Nil

\* what promptProjectSelection returns: the project id and the error
Selected(id, err) == [id |-> id, err |-> err]

\* strconv.Atoi over the replies to the selection menu; a reply outside the
\* table is not a number
AtoiTable == "0" :> 0 @@ "1" :> 1 @@ "2" :> 2 @@ "3" :> 3

\* the selection of promptProjectSelection among several projects
selectProject(projects, input) ==
    IF input \notin DOMAIN AtoiTable
    THEN Selected(<<>>, <<"invalid selection '", input, "'">>)
    ELSE IF AtoiTable[input] < 1 \/ AtoiTable[input] > Len(projects)
    THEN Selected(<<>>, <<"selection ", input, " is out of range">>)
    ELSE Selected(projects[AtoiTable[input]].ProjectID, Nil)

\* promptProjectSelection on what ListProjects returned, outside a test
\* environment; input is what the user types at the menu
promptProjectSelectionIn(listed, input) ==
    IF listed.err # Nil
    THEN Selected(<<>>, <<"failed to fetch projects for selection: ">> \o listed.err)
    ELSE IF Len(listed.projects) = 0
    THEN Selected(<<>>, <<"no Firebase projects available">>)
    ELSE IF Len(listed.projects) = 1 THEN Selected(listed.projects[1].ProjectID, Nil)
    ELSE selectProject(listed.projects, input)

promptProjectSelection(cli, answer, input) ==
    promptProjectSelectionIn(ListProjects(cli, answer), input)

\* strings.ToLower over the values of the --platform flag, and the platform
\* FromString answers for each lower-cased value
ToLowerFlag ==
    "android" :> "android" @@ "Android" :> "android" @@ "ios" :> "ios" @@
    "macos" :> "macos" @@ "windows" :> "windows" @@ "linux" :> "linux" @@
    "invalid" :> "invalid"
FromStringTable ==
    "android" :> "Android" @@ "ios" :> "iOS" @@ "macos" :> "macOS" @@
    "windows" :> "Windows" @@ "linux" :> "Linux"

\* what FromString and DetectPlatform return: the platform and the error
Chosen(name, err) == [platform |-> name, err |-> err]

FromString(platformStr) ==
    IF ToLowerFlag[platformStr] \in DOMAIN FromStringTable
    THEN Chosen(FromStringTable[ToLowerFlag[platformStr]], Nil)
    ELSE Chosen("<none>", <<"unsupported platform: ", platformStr>>)

\* the switch of runConfigure that sets targetPlatform
selectPlatform(f, platformFlag, autoDetect) ==
    IF platformFlag # ""
    THEN IF FromString(platformFlag).err # Nil
         THEN Chosen("<none>", <<"invalid platform: ">> \o FromString(platformFlag).err)
         ELSE FromString(platformFlag)
    ELSE IF autoDetect
    THEN IF DetectPlatform(f) = NoPlatformError
         THEN Chosen("<none>", <<"failed to detect platform: ", NoPlatformError>>)
         ELSE Chosen(DetectPlatform(f), Nil)
    ELSE Chosen("<none>", <<"platform detection failed: auto-detect is disabled and no platform specified">>)

(***************************************************************************)
(* The configuration file (firebase.go, android.go, ios.go, desktop.go).   *)
(* The temporary directory maps the names of its files to their content;   *)
(* config.ConfigFile is the name of a file in it, "" when not set.         *)
(***************************************************************************)
googleServicesJSON == "google-services.json"
googleServiceInfoPlist == "GoogleService-Info.plist"

ConfigFileName(name) ==
    IF name \in {"iOS", "macOS"} THEN googleServiceInfoPlist ELSE googleServicesJSON

\* the name os.CreateTemp makes of the pattern nativefire_<base>_*<ext>: one
\* that no file of the temporary directory has
TempNameTable ==
    googleServicesJSON :> "nativefire_google-services_1.json" @@
    googleServiceInfoPlist :> "nativefire_GoogleService-Info_1.plist"

\* what `firebase apps:sdkconfig <flag> <app id> --out <file>` writes
SdkConfig(flag, appID) == <<"sdkconfig", " ", flag, " ">> \o appID
\* what a file left in the temporary directory by something else holds
StaleConfig == <<"sdkconfig", " ", "of another run">>

\* os.Remove in the temporary directory
Remove(tmpDir, name) == [n \in DOMAIN tmpDir \ {name} |-> tmpDir[n]]

\* what DownloadConfig leaves: config.ConfigFile, the temporary directory and
\* the error
Downloaded(file, tmpDir, err) == [configFile |-> file, tmp |-> tmpDir, err |-> err]

ErrNoAppID == <<"app ID is required to download configuration">>
ErrNoDownload(platformName) ==
    <<"platform ", platformName, " does not support automatic config download">>
ErrDownload == <<"failed to download config: ", "Error: ", "request failed">>

\* DownloadConfig once the temporary name is chosen; sdk tells whether
\* apps:sdkconfig succeeds
DownloadConfigTo(cfg, tmpDir, configFile, platformName, sdk) ==
    IF platformName \notin {androidPlatform, iosPlatform, macosPlatform}
    THEN Downloaded(configFile, tmpDir, ErrNoDownload(platformName))
    ELSE IF ~sdk THEN Downloaded(configFile, Remove(tmpDir, configFile), ErrDownload)
    ELSE Downloaded(configFile,
                    (configFile :> SdkConfig(IF platformName = androidPlatform
                                             THEN androidPlatform ELSE iosPlatform,
                                             cfg.AppID)) @@ tmpDir,
                    Nil)

\* DownloadConfig on the Config cfg, whose ConfigFile is configFile before
DownloadConfig(cfg, configFile, tmpDir, sdk) ==
    IF cfg.AppID = <<>> THEN Downloaded(configFile, tmpDir, ErrNoAppID)
    ELSE DownloadConfigTo(cfg, tmpDir, TempNameTable[ConfigFileName(cfg.Platform)],
                          ToLowerName[cfg.Platform], sdk)

\* the ConfigPath methods; "." is the empty path
AndroidConfigPath(f) ==
    IF fileExists(f, <<"app", "src", "main">>) THEN <<"app">>
    ELSE IF fileExists(f, <<"android", "app", "src", "main">>) THEN <<"android", "app">>
    ELSE <<"app">>
IOSConfigPath(f) == IF fileExists(f, <<"ios">>) THEN <<"ios">> ELSE <<>>
DesktopConfigPath(f, dir) == IF fileExists(f, <<dir>>) THEN <<dir>> ELSE <<>>

ConfigPath(name, f) ==
    CASE name = "Android" -> AndroidConfigPath(f)
      [] name = "iOS" -> IOSConfigPath(f)
      [] name = "macOS" -> DesktopConfigPath(f, "macos")
      [] name = "Windows" -> DesktopConfigPath(f, "windows")
      [] name = "Linux" -> DesktopConfigPath(f, "linux")

\* the directory IOSPlatform.InstallConfig writes to: ConfigPath, then its
\* Runner subdirectory if there is one, then the subdirectory of that named
\* after the Xcode project if there is one
descend(f, configPath, name) ==
    IF name # "" /\ fileExists(f, configPath \o <<name>>) THEN configPath \o <<name>>
    ELSE configPath
IOSInstallPath_NoRunner(f) == descend(f, IOSConfigPath(f), findProjectName(f))
IOSInstallPath(f) ==
    descend(f, descend(f, IOSConfigPath(f), "Runner"), findProjectName(f))

\* os.MkdirAll of a path whose names are directories when they exist
MkdirAll(f, p) == IF p = <<>> \/ Exists(f, p) THEN f ELSE (p :> DirEntry) @@ f

\* what InstallConfig leaves: the project directory, the temporary directory
\* and the error
Installed(f, tmpDir, err) == [fs |-> f, tmp |-> tmpDir, err |-> err]

ErrReadSource == <<"failed to read source config file: ", "no such file or directory">>

\* the body the InstallConfig methods share: the directory is made, the
\* source file is read and written to the target, and the source is removed
\* when cleanUp holds
installConfigAt(f, tmpDir, configPath, fileName, sourceFile, cleanUp) ==
    IF sourceFile \notin DOMAIN tmpDir THEN Installed(MkdirAll(f, configPath), tmpDir, ErrReadSource)
    ELSE Installed(WriteFile(MkdirAll(f, configPath), configPath \o <<fileName>>,
                             tmpDir[sourceFile]),
                   IF cleanUp THEN Remove(tmpDir, sourceFile) ELSE tmpDir,
                   Nil)

\* the source file of the Android and iOS methods: config.ConfigFile, else
\* the platform's file name in the temporary directory
sourceFileOf(configFile, fileName) == IF configFile = "" THEN fileName ELSE configFile

\* the clean-up of the Android and iOS methods removes config.ConfigFile
AndroidInstallConfig(f, tmpDir, configFile) ==
    installConfigAt(f, tmpDir, AndroidConfigPath(f), googleServicesJSON,
                    sourceFileOf(configFile, googleServicesJSON), configFile # "")

IOSInstallConfig(f, tmpDir, configFile) ==
    installConfigAt(f, tmpDir, IOSInstallPath(f), googleServiceInfoPlist,
                    sourceFileOf(configFile, googleServiceInfoPlist), configFile # "")

\* installConfigHelper of the desktop platforms: the source is the
\* platform's file name in the temporary directory, and it is left there
installConfigHelper(name, f, tmpDir) ==
    installConfigAt(f, tmpDir, ConfigPath(name, f), ConfigFileName(name),
                    ConfigFileName(name), FALSE)

InstallConfig(name, f, tmpDir, configFile) ==
    CASE name = "Android" -> AndroidInstallConfig(f, tmpDir, configFile)
      [] name = "iOS" -> IOSInstallConfig(f, tmpDir, configFile)
      [] OTHER -> installConfigHelper(name, f, tmpDir)

\* addInitializationHelper of the desktop platforms: two printed lines
addInitializationHelper(name) ==
    << <<"print", "Please manually add Firebase initialization code to your application.">>,
       <<"print", "Refer to Firebase documentation for platform-specific initialization steps.">> >>

(***************************************************************************)
(* The configure specification: one run of runConfigure, stage by stage,   *)
(* on a command line, a project directory, a temporary directory and a     *)
(* backend that answers each call of the Firebase CLI.                     *)
(***************************************************************************)
\* the stages of runConfigure, in the order of its statements
StageOrder ==
    <<"preflight", "project", "validate", "platform", "register", "download",
      "install", "initialize">>
\* an order that resolves the platform before the project is validated
StageOrder_PlatformFirst ==
    <<"preflight", "platform", "project", "validate", "register", "download",
      "install", "initialize">>

\* the stage that follows a stage of an order, "done" after the last
nextIn(order, stage) ==
    LET i == CHOOSE k \in 1..Len(order) : order[k] = stage
    IN  IF i = Len(order) THEN "done" ELSE order[i + 1]

stageAfter_PlatformFirst(stage) == nextIn(StageOrder_PlatformFirst, stage)
stageAfter(stage) == nextIn(StageOrder, stage)

\* where the run goes after a stage that returned err: the statement
\* `if err != nil { return ... }` after each call
Advance_PastInstall(stage, err) ==
    IF err = Nil \/ stage = "install" THEN stageAfter(stage) ELSE "failed"
Advance(stage, err) == IF err = Nil THEN stageAfter(stage) ELSE "failed"

\* the end of a stage: wrap is what runConfigure puts before the error
Finish(stage, err, wrap) ==
    /\ trace' = Append(trace, [stage |-> stage, err |-> err])
    /\ pc' = Advance(stage, err)
    /\ runErr' = IF Advance(stage, err) = "failed" THEN wrap \o err
                 ELSE IF Advance(stage, err) = "done" THEN Nil
                 ELSE runErr

\* the answers of `firebase projects:list --json`
Project(id, state) == [ProjectID |-> id, State |-> state]
IdOther == <<"other", "-", "project">>
ProjectAnswers ==
    {[kind |-> "fail", status |-> "", result |-> <<>>],
     [kind |-> "garbage", status |-> "", result |-> <<>>],
     [kind |-> "parsed", status |-> "error", result |-> <<Project(IdMyProject, activeState)>>]}
    \cup [kind : {"parsed"}, status : {successStatus},
          result : {<<>>,
                    <<Project(IdMyProject, activeState)>>,
                    <<Project(IdMyProject, "DELETE_REQUESTED")>>,
                    <<Project(IdOther, activeState), Project(IdMyProject, activeState)>>,
                    <<Project(IdOther, activeState), Project(IdMyProject, "DELETE_REQUESTED"),
                      Project(IdMyAwesomeProject, activeState)>>}]
GoodAnswer ==
    [kind |-> "parsed", status |-> successStatus,
     result |-> <<Project(IdOther, activeState), Project(IdMyProject, activeState)>>]

\* the backends: the state of the CLI and the answer of projects:list
Backends ==
    [cli : {"ok"}, answer : ProjectAnswers]
    \cup [cli : {"no cli", "not authenticated"}, answer : {GoodAnswer}]

\* the command lines: the --platform flag and --auto-detect
PlatformFlags == {"", "android", "Android", "ios", "macos", "windows", "linux", "invalid"}
MenuInputs == {"abc", "0", "1", "2", "3"}

\* the project directories of the runs
AnAppDelegate == <<"AppDelegate.swift">> :> PlainSwiftAppDelegate(<<"class AppDelegate", " {", NL>>)
AndroidDirs ==
    {<<"app", "build.gradle">> :> AppGradlePlugins
        @@ <<"app", "src", "main", "AndroidManifest.xml">> :> ManifestWith(FileId("manifest1"))
        @@ MainActivityKt :> FreshKotlinActivity,
     <<"android", "app", "build.gradle">> :> AppGradleApply
        @@ <<"android", "build.gradle">> :> ProjectGradle(<<>>)
        @@ <<"android", "app", "src", "main", "AndroidManifest.xml">> :>
               ManifestWith(FileId("manifest2")),
     <<"app", "src", "main", "AndroidManifest.xml">> :> ManifestWith(FileId("manifest1"))
        @@ <<"android", "app", "src", "main", "AndroidManifest.xml">> :>
               ManifestWith(FileId("manifest2"))
        @@ <<"build.gradle">> :> ProjectGradle(<<>>),
     <<"build.gradle">> :> AppGradleApply,
     <<"settings.gradle">> :> EmptyFile}
IOSDirs ==
    {<<"Podfile">> :> PodfileOneTarget @@ AnAppDelegate,
     <<"ios", "Podfile">> :> PodfileTwoTargets @@ <<"ios", "Runner", "Info.plist">> :> ProxyPlist("<true/>"),
     <<"Runner", "Info.plist">> :> ProxyPlist("<true/>")
        @@ <<"MyApp.xcodeproj", "project.pbxproj">> :> PbxprojWith(FileId("pbxproj"))
        @@ <<"Runner", "MyApp">> :> DirEntry @@ <<"MyApp">> :> DirEntry @@ AnAppDelegate,
     <<"ios", "MyApp.xcodeproj", "project.pbxproj">> :> PbxprojWith(FileId("pbxproj"))
        @@ <<"ios", "Runner", "Info.plist">> :> ProxyPlist("<true/>")
        @@ <<"ios", "MyApp">> :> DirEntry @@ <<"Podfile">> :> PodfileOneTarget,
     <<"MyApp.xcodeproj", "project.pbxproj">> :> PbxprojWith(FileId("pbxproj"))
        @@ <<"MyApp">> :> DirEntry @@ <<"Podfile">> :> PodfileOneTarget @@ AnAppDelegate,
     <<"MyApp.xcworkspace">> :> DirEntry @@ <<"Podfile">> :> PodfileOneTarget}
DesktopDirs ==
    {<<"macos">> :> DirEntry, <<"main.swift">> :> <<"import UIKit", NL>>,
     <<"windows">> :> DirEntry, <<"CMakeLists.txt">> :> EmptyFile,
     <<"linux">> :> DirEntry @@ <<"Makefile">> :> EmptyFile, <<"Makefile">> :> EmptyFile,
     <<"Info.plist">> :> Absent}
CfgProjects == {MkFs(c) : c \in AndroidDirs \cup IOSDirs \cup DesktopDirs}

\* the temporary directory before the run: empty, or holding files another
\* run left under the platforms' file names
TempDirs ==
    {<<>>, googleServicesJSON :> StaleConfig @@ googleServiceInfoPlist :> StaleConfig}

\* what the environment answers RegisterApp in a run
CfgEnvs ==
    {[pre |-> "ok", list1 |-> TRUE, create |-> "text", list2 |-> TRUE],
     [pre |-> "ok", list1 |-> FALSE, create |-> "json", list2 |-> TRUE],
     [pre |-> "ok", list1 |-> TRUE, create |-> "denied", list2 |-> TRUE],
     [pre |-> "ok", list1 |-> TRUE, create |-> "exists", list2 |-> TRUE]}

\* the command lines, projects and backends of the runs: every command line
\* and backend on a few directories, and every directory with a backend that
\* knows the project
CfgInputs ==
    [id : {IdMyProject, IdOther, EmptyProject},
     args : [platformFlag : PlatformFlags, autoDetect : BOOLEAN],
     backend : Backends,
     dir : {MkFs(c) : c \in {<<"build.gradle">> :> AppGradleApply,
                             <<"Podfile">> :> PodfileOneTarget @@ AnAppDelegate,
                             <<"Info.plist">> :> Absent}},
     appID : {<<>>}, tmp : {<<>>}]
    \cup [id : {IdMyProject},
          args : [platformFlag : PlatformFlags \ {"invalid", "Android"}, autoDetect : {TRUE}],
          backend : {[cli |-> "ok", answer |-> GoodAnswer]},
          dir : CfgProjects,
          appID : {<<>>, ExplicitAppID}, tmp : TempDirs]

CfgInit ==
    /\ SpinIdle
    /\ \E in \in CfgInputs :
          /\ projectID = in.id
          /\ args = in.args
          /\ backend = in.backend
          /\ fs = in.dir
          /\ tmp = in.tmp
          /\ flags = [NoConfig EXCEPT !.ProjectID = in.id, !.AppID = in.appID]
    /\ pc = "preflight" /\ trace = <<>> /\ runErr = NotRun /\ artifact = ""
    /\ config = NoConfig /\ resolved = NotResolved
    /\ registry = <<>> /\ log = <<>>
    /\ targetPlatform = "<none>" /\ response = "yes"
    /\ snaps = <<>> /\ results = <<>> /\ printed = <<>> /\ unwritable = {}
    /\ GenIdle
    /\ DetIdle

\* dependencies.PreflightCheck, the first statement of runConfigure
Preflight ==
    /\ pc = "preflight"
    /\ Finish("preflight", PreflightCheck(backend.cli), <<"dependency check failed: ">>)
    /\ UNCHANGED <<projectID, fs, args, backend, tmp, artifact,
                   genVars, detVars, resVars, regVars, mutVars, spinVars>>

\* the project id: the --project flag, else promptProjectSelection, whose
\* error is returned as it is
SelectProject ==
    /\ pc = "project"
    /\ IF projectID # EmptyProject
       THEN projectID' = projectID /\ Finish("project", Nil, <<>>)
       ELSE \E input \in MenuInputs :
               LET s == promptProjectSelection(backend.cli, backend.answer, input)
               IN  projectID' = s.id /\ Finish("project", s.err, <<>>)
    /\ UNCHANGED <<fs, args, backend, tmp, artifact,
                   genVars, detVars, resVars, regVars, mutVars, spinVars>>

\* firebaseClient.ValidateProject(projectID)
ValidateProjectStage ==
    /\ pc = "validate"
    /\ Finish("validate", ValidateProject(projectID, backend.cli, backend.answer),
              <<"project validation failed: ">>)
    /\ UNCHANGED <<projectID, fs, args, backend, tmp, artifact,
                   genVars, detVars, resVars, regVars, mutVars, spinVars>>

\* the switch that sets targetPlatform, and the Config built from the flags
SelectPlatform ==
    /\ pc = "platform"
    /\ LET c == selectPlatform(fs, args.platformFlag, args.autoDetect)
       IN  /\ targetPlatform' = c.platform
           /\ config' = IF c.err = Nil
                        THEN [flags EXCEPT !.ProjectID = projectID, !.Platform = c.platform]
                        ELSE config
           /\ Finish("platform", c.err, <<>>)
    /\ UNCHANGED <<projectID, fs, args, backend, tmp, artifact, resolved,
                   response, snaps, results, printed, unwritable,
                   genVars, detVars, regVars, spinVars>>

\* firebaseClient.RegisterApp(config)
RegisterAppStage ==
    /\ pc = "register"
    /\ \E env \in CfgEnvs :
          LET r == RegisterAppCall(fs, config, registry, env)
          IN  /\ Registered(r)
              /\ Finish("register", r.obs.result, <<"failed to register app with Firebase: ">>)
    /\ UNCHANGED <<projectID, fs, args, backend, tmp, artifact, flags, resolved,
                   genVars, detVars, mutVars, spinVars>>

\* firebaseClient.DownloadConfig(config)
DownloadConfigStage ==
    /\ pc = "download"
    /\ \E sdk \in BOOLEAN :
          LET d == DownloadConfig(config, artifact, tmp, sdk)
          IN  /\ artifact' = d.configFile
              /\ tmp' = d.tmp
              /\ Finish("download", d.err, <<"failed to download configuration: ">>)
    /\ UNCHANGED <<projectID, fs, args, backend,
                   genVars, detVars, resVars, regVars, mutVars, spinVars>>

\* targetPlatform.InstallConfig(config)
InstallConfigStage ==
    /\ pc = "install"
    /\ LET i == InstallConfig(targetPlatform, fs, tmp, artifact)
       IN  /\ fs' = i.fs
           /\ tmp' = i.tmp
           /\ Finish("install", i.err, <<"failed to install configuration: ">>)
    /\ UNCHANGED <<projectID, args, backend, artifact,
                   genVars, detVars, resVars, regVars, mutVars, spinVars>>

\* the state after the AddInitializationCode of the run's platform left m
\* and printed msgs
Initialized(m, msgs) ==
    /\ fs' = m.fs
    /\ snaps' = <<fs, m.fs>>
    /\ results' = Append(results, m.err)
    /\ printed' = Append(printed, msgs)
    /\ Finish("initialize", m.err, <<"failed to add initialization code: ">>)

\* targetPlatform.AddInitializationCode(config)
AddInitializationCodeStage ==
    /\ pc = "initialize"
    /\ \/ /\ targetPlatform = "Android"
          /\ Initialized(AndroidAddInitializationCode(fs), AndroidDependencyMessages(fs))
       \/ /\ targetPlatform = "iOS"
          /\ \E pod \in PodOutcomes :
                Initialized(IOSAddInitializationCode(fs, response, pod),
                            IOSDependencyMessages(fs))
       \/ /\ targetPlatform \in {"macOS", "Windows", "Linux"}
          /\ Initialized(Mutated(fs, Nil), addInitializationHelper(targetPlatform))
    /\ UNCHANGED <<projectID, args, backend, tmp, artifact, targetPlatform, response,
                   unwritable, genVars, detVars, resVars, regVars, spinVars>>

CfgNext ==
    \/ Preflight
    \/ SelectProject
    \/ ValidateProjectStage
    \/ SelectPlatform
    \/ RegisterAppStage
    \/ DownloadConfigStage
    \/ InstallConfigStage
    \/ AddInitializationCodeStage

SpecConfigure == CfgInit /\ [][CfgNext]_vars

(***************************************************************************)
(* The Spinner specification: either the threads t1 and t2 call Start and  *)
(* Stop on one Spinner, each up to MaxCalls times, or ShowLoader runs once *)
(* on a Spinner of its own.  routines holds the position of every          *)
(* animation goroutine started; screen counts the frames printed (up to    *)
(* MaxFrames), and records in quiet that the last call that changed the    *)
(* spinner was a Stop that returned, in late that a frame was printed then. *)
(***************************************************************************)
otherVars == <<projectID, fs, genVars, detVars, resVars, regVars, mutVars, cfgVars>>

SpinInit ==
    /\ spinner = NewSpinner
    /\ routines = <<>>
    /\ screen = NoScreen
    /\ \/ /\ callers = [t \in Threads |-> [pc |-> "ready", left |-> MaxCalls]]
          /\ loader = NoLoader
       \/ /\ callers = [t \in Threads |-> [pc |-> "ready", left |-> 0]]
          /\ loader = [NoLoader EXCEPT !.pc = "start"]
    /\ projectID = IdMyProject
    /\ fs = EmptyProject
    /\ GenIdle
    /\ DetIdle
    /\ ResIdle
    /\ RegIdle
    /\ MutIdle
    /\ CfgIdle

\* Start up to the unlock: the caller goes on to the go statement when it
\* set active
CallStart(t) ==
    /\ ~spinner.panicked
    /\ callers[t].pc = "ready"
    /\ callers[t].left > 0
    /\ spinner' = StartLocked(spinner)
    /\ callers' = [callers EXCEPT ![t] = [pc |-> IF spinner.active THEN "ready" ELSE "spawn",
                                          left |-> @.left - 1]]
    /\ screen' = [screen EXCEPT !.quiet = spinner.active /\ @]
    /\ UNCHANGED <<routines, loader, otherVars>>

\* the go statement of Start
Spawn(t) ==
    /\ ~spinner.panicked
    /\ callers[t].pc = "spawn"
    /\ routines' = Append(routines, "select")
    /\ callers' = [callers EXCEPT ![t].pc = "ready"]
    /\ UNCHANGED <<spinner, screen, loader, otherVars>>

\* Stop; a panic ends the process and with it every goroutine
CallStop(t) ==
    /\ ~spinner.panicked
    /\ callers[t].pc = "ready"
    /\ callers[t].left > 0
    /\ spinner' = StopLocked(spinner)
    /\ callers' = [callers EXCEPT ![t].left = @ - 1]
    /\ routines' = IF StopLocked(spinner).panicked
                   THEN [g \in 1..Len(routines) |-> "dead"] ELSE routines
    /\ screen' = [screen EXCEPT !.quiet = ~StopLocked(spinner).panicked]
    /\ UNCHANGED <<loader, otherVars>>

\* the select statement of goroutine g
GoSelect(g) ==
    /\ ~spinner.panicked
    /\ routines[g] = "select"
    /\ routines' = [routines EXCEPT ![g] = selectStop(spinner)]
    /\ UNCHANGED <<spinner, callers, screen, loader, otherVars>>

\* the default branch of goroutine g up to the unlock
GoFrame(g) ==
    /\ ~spinner.panicked
    /\ routines[g] = "lock"
    /\ IF printsFrame(spinner)
       THEN /\ routines' = [routines EXCEPT ![g] = "sleep"]
            /\ screen' = [screen EXCEPT !.frames = IF @ < MaxFrames THEN @ + 1 ELSE @,
                                        !.late = @ \/ screen.quiet]
       ELSE /\ routines' = [routines EXCEPT ![g] = "done"]
            /\ screen' = screen
    /\ UNCHANGED <<spinner, callers, loader, otherVars>>

\* time.Sleep returns in goroutine g
GoWake(g) ==
    /\ ~spinner.panicked
    /\ routines[g] = "sleep"
    /\ routines' = [routines EXCEPT ![g] = "select"]
    /\ UNCHANGED <<spinner, callers, screen, loader, otherVars>>

GoStep == \E g \in 1..Len(routines) : GoSelect(g) \/ GoFrame(g) \/ GoWake(g)

\* ShowLoader: spinner.Start() of a new Spinner
LoaderStart ==
    /\ loader.pc = "start"
    /\ spinner' = StartLocked(spinner)
    /\ routines' = Append(routines, "select")
    /\ loader' = [loader EXCEPT !.pc = "callback"]
    /\ UNCHANGED <<callers, screen, otherVars>>

\* ShowLoader: err := callback()
LoaderCallback ==
    /\ loader.pc = "callback"
    /\ \E e \in {Nil, ErrCallback} :
          loader' = [loader EXCEPT !.pc = "stop", !.calls = @ + 1, !.err = e]
    /\ UNCHANGED <<spinner, callers, routines, screen, otherVars>>

\* ShowLoader: spinner.Stop()
LoaderStop ==
    /\ loader.pc = "stop"
    /\ spinner' = StopLocked(spinner)
    /\ screen' = [screen EXCEPT !.quiet = ~StopLocked(spinner).panicked]
    /\ loader' = [loader EXCEPT !.pc = "outcome"]
    /\ UNCHANGED <<callers, routines, otherVars>>

\* ShowLoader: the outcome is printed and err returned
LoaderReturn ==
    /\ loader.pc = "outcome"
    /\ screen' = [screen EXCEPT !.outcome = IF loader.err # Nil THEN "Failed" ELSE "Complete!"]
    /\ loader' = [loader EXCEPT !.pc = "returned", !.result = loader.err]
    /\ UNCHANGED <<spinner, callers, routines, otherVars>>

SpinNext ==
    \/ \E t \in Threads : CallStart(t)
    \/ \E t \in Threads : Spawn(t)
    \/ \E t \in Threads : CallStop(t)
    \/ \E g \in 1..Len(routines) : GoSelect(g)
    \/ \E g \in 1..Len(routines) : GoFrame(g)
    \/ \E g \in 1..Len(routines) : GoWake(g)
    \/ LoaderStart
    \/ LoaderCallback
    \/ LoaderStop
    \/ LoaderReturn

SpecSpinner == SpinInit /\ [][SpinNext]_vars

\* the Go scheduler runs every runnable goroutine, time.Sleep returns and
\* sync.Mutex does not starve a waiter: a goroutine that can step does
SpecSpinnerFair == SpecSpinner /\ WF_vars(GoStep)

(***************************************************************************)
(* Claims about identifier generation.                                     *)
(***************************************************************************)
\* the rule as section 4.2 of the specification words it, on the original id
C7_Rule(id) ==
    (IF \E i \in 1..Len(id) : id[i] \in {"-", "."} THEN <<"com", ".">>
     ELSE <<"com", ".", "firebase", ".">>)
    \o [i \in 1..Len(id) |-> IF id[i] = "-" THEN "." ELSE id[i]]

C8_Rank(name) ==
    CASE name = "Android" -> 1 [] name = "iOS" -> 2 [] name = "macOS" -> 3
      [] name = "Windows" -> 4 [] name = "Linux" -> 5

C8_Names == {"Android", "iOS", "macOS", "Windows", "Linux"}

\* C8: DetectPlatform returns the first platform, in the order Android, iOS,
\* macOS, Windows, Linux, whose predicate is true of the directory, and the
\* error exactly when no predicate is true; build.gradle with Podfile is
\* Android, CMakeLists.txt alone is Windows.
C8_ClassifierPriority ==
    detected # NotDetectedYet =>
        /\ (detected = NoPlatformError) <=> (\A n \in C8_Names : ~Detect(n, fs))
        /\ detected # NoPlatformError =>
              /\ detected \in C8_Names
              /\ Detect(detected, fs)
              /\ \A n \in C8_Names : C8_Rank(n) < C8_Rank(detected) => ~Detect(n, fs)
        /\ ({<<"build.gradle">>, <<"Podfile">>} \subseteq DOMAIN fs) => detected = "Android"
        /\ (DOMAIN fs = {<<"CMakeLists.txt">>}) => detected = "Windows"

C8_Witness ==
    /\ {<<"build.gradle">>, <<"Podfile">>, <<"Makefile">>} \subseteq DOMAIN fs
    /\ detected = "Android"

(***************************************************************************)
(* Claims about identifier resolution.                                     *)
(***************************************************************************)
C6_Explicit == IF config.Platform = "Android" THEN config.PackageName ELSE config.BundleID
C6_Parsed ==
    IF config.Platform = "Android" THEN detectAndroidPackageName(fs) ELSE detectIOSBundleID(fs)
C6_Generated ==
    IF config.Platform = "Android" THEN generateDefaultPackageName(config.ProjectID)
    ELSE generateDefaultBundleID(config.ProjectID)

\* C6: for Android, iOS and macOS the resolved identifier is the explicit one
\* when it is given, else the one parsed from the project files when there is
\* one, else the one generated from the project id; the create command and
\* the lookup resolve the same value.
C6_ResolutionPriority ==
    (resolved # NotResolved /\ config.Platform \in {"Android", "iOS", "macOS"}) =>
        /\ resolved.expected =
              IF C6_Explicit # <<>> THEN C6_Explicit
              ELSE IF C6_Parsed # <<>> THEN C6_Parsed
              ELSE C6_Generated
        /\ resolved.expected # <<>>
        /\ resolved.create = resolved.expected
        /\ resolved.match = resolved.expected

C6_Witness ==
    /\ resolved # NotResolved
    /\ config.Platform = "macOS"
    /\ C6_Explicit # <<>>
    /\ C6_Parsed # <<>>
    /\ C6_Parsed # C6_Explicit
    /\ resolved.expected = ExplicitId

(***************************************************************************)
(* Claims about app registration.                                          *)
(***************************************************************************)
\* the platforms that register apps, and the platform the registry files
\* their apps under
RegisteringPlatforms == {"Android", "iOS", "macOS"}
RegistryPlatformOf == "Android" :> "ANDROID" @@ "iOS" :> "IOS" @@ "macOS" :> "IOS"
ResolvedIdentifier == resolveExpectedIdentifier(fs, flags, ToLowerName[flags.Platform])

\* the apps of the registry when call i started
RegistryBefore(i) ==
    SubSeq(registry, 1,
           Len(registry) - Cardinality({j \in i..Len(log) : log[j].created # NoApp}))
AppsBefore(i) == {RegistryBefore(i)[k] : k \in 1..Len(RegistryBefore(i))}

\* the apps of the matching platform whose namespace is the resolved identifier
NamespaceMatches(i) ==
    {app \in AppsBefore(i) :
        /\ app.Platform = RegistryPlatformOf[flags.Platform]
        /\ app.Namespace = ResolvedIdentifier}

\* the apps of the matching platform whose namespace, bundle id or package
\* name is the resolved identifier
IdentifierMatches(i) ==
    {app \in AppsBefore(i) :
        /\ app.Platform = RegistryPlatformOf[flags.Platform]
        /\ \/ app.Namespace = ResolvedIdentifier
           \/ flags.Platform = "Android" /\ app.PackageName = ResolvedIdentifier
           \/ flags.Platform # "Android" /\ app.BundleID = ResolvedIdentifier}

\* C3: with no explicit app id, when the listing holds an app of the matching
\* platform whose namespace is the resolved identifier, RegisterApp sets AppID
\* to that app's id and does not call apps:create, whatever the app's bundleId
\* and packageName fields hold.
C3_NamespaceMatchIsReused ==
    \A i \in 1..Len(log) :
        (/\ flags.Platform \in RegisteringPlatforms
         /\ flags.AppID = <<>>
         /\ log[i].listing1 = "ok"
         /\ NamespaceMatches(i) # {})
        => /\ log[i].createCalls = 0
           /\ log[i].result = Nil
           /\ log[i].appID \in {app.AppID : app \in NamespaceMatches(i)}

\* C4: when apps:create fails with output containing "already exists" and the
\* listing that follows holds an app of the matching platform whose namespace,
\* bundle id or package name is the resolved identifier, RegisterApp returns
\* success with AppID set to that app's id.
C4_DuplicateErrorRecovers ==
    \A i \in 1..Len(log) :
        (/\ flags.Platform \in RegisteringPlatforms
         /\ log[i].createCalls = 1
         /\ log[i].created = NoApp
         /\ Contains(log[i].createOut, <<"already exists">>)
         /\ log[i].listing2 = "ok"
         /\ IdentifierMatches(i) # {})
        => /\ log[i].result = Nil
           /\ log[i].appID \in {app.AppID : app \in IdentifierMatches(i)}

\* C5: for Android, iOS and macOS, when a call created an app and the next
\* call's listing succeeds (the registry lists the app under the platform it was
\* created with), the next call with the same command line reuses the app's id
\* and does not call apps:create.
C5_SecondRunReusesApp ==
    \A i \in 1..(Len(log) - 1) :
        (/\ flags.Platform \in RegisteringPlatforms
         /\ flags.AppID = <<>>
         /\ log[i].listing1 = "ok"
         /\ log[i].result = Nil
         /\ log[i].created # NoApp
         /\ log[i].created.Namespace = ResolvedIdentifier
         /\ log[i + 1].listing1 = "ok"
         /\ log[i].created \in AppsBefore(i + 1))
        => /\ log[i + 1].createCalls = 0
           /\ log[i + 1].appID = log[i].created.AppID

\* C9: with an explicit app id RegisterApp never lists the apps and never calls
\* apps:create, and leaves AppID as it was, whether it succeeds or fails.
C9_ExplicitAppIDShortCircuits ==
    flags.AppID # <<>> =>
        /\ \A i \in 1..Len(log) :
              /\ log[i].listing1 = "none"
              /\ log[i].listing2 = "none"
              /\ log[i].createCalls = 0
              /\ log[i].created = NoApp
              /\ log[i].appID = flags.AppID
        /\ config.AppID = flags.AppID

C9_Witness ==
    /\ flags.AppID = ExplicitAppID
    /\ Len(log) = 2
    /\ log[1].result = ErrNotAuthenticated
    /\ log[2].result = Nil
    /\ registry # <<>>
    /\ config.AppID = ExplicitAppID

(***************************************************************************)
(* Claims about the source mutators.                                       *)
(***************************************************************************)
\* the number of occurrences of p in s
Count(s, p) ==
    Cardinality({i \in 0..(Len(s) - Len(p)) : SubSeq(s, i + 1, i + Len(p)) = p})

\* C1: for every Android or iOS project directory, running the source mutator
\* twice in succession leaves every file after the second run byte-identical
\* to its content after the first run: the directory a run leaves is the
\* directory the run before it left.
C1_SecondRunChangesNothing ==
    \A i \in 2..(Len(snaps) - 1) : snaps[i + 1] = snaps[i]

\* the entry-point files and the initialization call of each
EntryPoints ==
    {MainActivityJava, MainActivityKt, <<"AppDelegate.swift">>, <<"ios", "AppDelegate.swift">>,
     <<"AppDelegate.m">>, <<"ios", "AppDelegate.m">>}
InitializationCall(p) ==
    IF Base(p) \in {"MainActivity.java", "MainActivity.kt"} THEN <<"FirebaseApp.initializeApp">>
    ELSE IF Base(p) = "AppDelegate.swift" THEN <<"FirebaseApp.configure()">>
    ELSE <<"[FIRApp configure]">>
Calls(f, p) == IF p \in DOMAIN f THEN Count(f[p], InitializationCall(p)) ELSE 0

\* C2: an entry-point file that holds at most one initialization call before
\* the first run holds at most one after any number of runs, and a run adds
\* a call only to a file that held none.
C2_AtMostOneInitializationCall ==
    \A p \in EntryPoints :
        (snaps # <<>> /\ Calls(snaps[1], p) <= 1) =>
            \A i \in 1..Len(snaps) :
                /\ Calls(snaps[i], p) <= 1
                /\ (i > 1 /\ Calls(snaps[i], p) > Calls(snaps[i - 1], p)) =>
                       Calls(snaps[i - 1], p) = 0

\* a file without the call got it in the first run and kept exactly one in
\* the second, on Android and on iOS
C2_Witness ==
    /\ Len(snaps) = 3
    /\ \E p \in {MainActivityKt, MainActivityJava, <<"AppDelegate.swift">>, <<"AppDelegate.m">>} :
          /\ targetPlatform = (IF p \in {MainActivityKt, MainActivityJava} THEN "Android" ELSE "iOS")
          /\ p \in DOMAIN snaps[1]
          /\ Calls(snaps[1], p) = 0
          /\ Calls(snaps[2], p) = 1
          /\ Calls(snaps[3], p) = 1
\* the end-to-end scenario: app/build.gradle with a plugins block and no
\* google-services reference, MainActivity.kt with a standard onCreate, whose
\* first statement is the call of super.onCreate(savedInstanceState)
SuperCall == <<"super.", "onCreate", "(savedInstanceState)">>
InitCall == <<"FirebaseApp.initializeApp", "(this)">>
C10_Scenario(f) ==
    /\ ReadOK(f, <<"app", "build.gradle">>)
    /\ Contains(f[<<"app", "build.gradle">>], <<"plugins {">>)
    /\ ~Contains(f[<<"app", "build.gradle">>], <<"google-services">>)
    /\ ReadOK(f, MainActivityKt)
    /\ Contains(f[MainActivityKt], KotlinHeader \o <<NL, "        ">> \o SuperCall)

\* the plugin id line stands inside the plugins block of g exactly once:
\* after the opening of the block and before the first "}" that follows it
PluginInsideBlockOnce(g) ==
    /\ Count(g, <<"id 'com.google.gms.", "google-services", "'">>) = 1
    /\ Index(g, <<"plugins {">>) # -1
    /\ Index(g, <<"plugins {">>) < Index(g, <<"id 'com.google.gms.", "google-services", "'">>)
    /\ \A c \in 0..(Len(g) - 1) :
          (g[c + 1] = "}" /\ c > Index(g, <<"plugins {">>)) =>
              Index(g, <<"id 'com.google.gms.", "google-services", "'">>) < c

AnchorMisses(platformName, f) ==
    IF platformName = "Android"
    THEN IF findBuildGradle(f) = NoPath THEN {}
         ELSE LET g == patchBuildGradle(f, findBuildGradle(f))
                  q == findProjectBuildGradle(g)
              IN  IF /\ q # NoPath
                     /\ ~Contains(g[q], <<"google-services">>)
                     /\ ~Contains(g[q], <<"dependencies {">>)
                  THEN {q} ELSE {}
    ELSE IF /\ findPodfile(f) # NoPath
            /\ ~Contains(f[findPodfile(f)], <<"Firebase/Core">>)
            /\ \A i \in 1..Len(Split(f[findPodfile(f)])) :
                  ~(/\ Contains(Split(f[findPodfile(f)])[i], <<"target">>)
                    /\ Contains(Split(f[findPodfile(f)])[i], <<"do">>))
    THEN {findPodfile(f)} ELSE {}

\* C11: when a build file lacks every recognized anchor, the dependency patch
\* leaves that file unchanged, reports a warning, and the run does not fail
\* because of it (it returns no error, or the error of pod install).
C11_AnchorMissWarns ==
    \A i \in 1..Len(results) :
        \A p \in AnchorMisses(targetPlatform, snaps[i]) :
            /\ snaps[i + 1][p] = snaps[i][p]
            /\ results[i] \in {Nil, ErrPodInstall}
            /\ \E k \in 1..Len(printed[i]) : printed[i][k][1] = "warning"

(***************************************************************************)
(* Claims about the configure run.                                         *)
(***************************************************************************)
\* the stage ran, and the stage ran and returned no error
Ran(stage) == \E i \in 1..Len(trace) : trace[i].stage = stage
Succeeded(stage) == \E i \in 1..Len(trace) : trace[i].stage = stage /\ trace[i].err = Nil
Failed(stage) == \E i \in 1..Len(trace) : trace[i].stage = stage /\ trace[i].err # Nil
Ended == pc \in {"done", "failed"}

\* the directory InstallConfig writes to
InstallPath(name, f) == IF name = "iOS" THEN IOSInstallPath(f) ELSE ConfigPath(name, f)

\* C12: a configure run for Windows or Linux, given by --platform or
\* detected, whose project is valid and whose app is registered, is not
\* aborted before the install stage: it places the configuration file in the
\* platform directory and then only prints the manual instructions.
C12_DesktopRunInstalls ==
    (targetPlatform \in {"Windows", "Linux"} /\ Succeeded("register") /\ Ended) =>
        /\ Succeeded("install")
        /\ (ConfigPath(targetPlatform, fs) \o <<ConfigFileName(targetPlatform)>>) \in DOMAIN fs
        /\ pc = "done"
        /\ printed = <<addInitializationHelper(targetPlatform)>>

\* the step of a run in which InstallConfig returns no error
InstallSucceeds == pc = "install" /\ pc' = "initialize"

\* C13: for every platform, a successful InstallConfig leaves in its target
\* directory a file named ConfigFileName() whose bytes are those of the
\* downloaded artifact config.ConfigFile, and the artifact no longer exists
\* afterwards.  The target directory is the one InstallConfig resolves (for
\* iOS, ConfigPath() after its descents).
C13_ArtifactConsumed ==
    [][InstallSucceeds =>
          /\ artifact \in DOMAIN tmp
          /\ (InstallPath(targetPlatform, fs) \o <<ConfigFileName(targetPlatform)>>)
                 \in DOMAIN fs'
          /\ fs'[InstallPath(targetPlatform, fs) \o <<ConfigFileName(targetPlatform)>>]
                 = tmp[artifact]
          /\ artifact \notin DOMAIN tmp']_vars

\* the target directory as the claim words it, on the directory f
C14_Rule(name, f) ==
    IF name = "Android"
    THEN IF Exists(f, <<"app", "src", "main">>) THEN <<"app">>
         ELSE IF Exists(f, <<"android", "app", "src", "main">>) THEN <<"android", "app">>
         ELSE <<"app">>
    ELSE LET base == IF Exists(f, <<"ios">>) THEN <<"ios">> ELSE <<>>
             runner == IF Exists(f, base \o <<"Runner">>) THEN base \o <<"Runner">> ELSE base
             named == {runner \o <<ProjectNameTable[Base(p)]>> :
                          p \in {q \in DOMAIN f : Match("*.xcodeproj", Base(q))}}
             present == {d \in named : Exists(f, d)}
         IN  IF present # {} THEN CHOOSE d \in present : TRUE ELSE runner

\* C14: the configuration file of an Android or iOS run goes to the
\* directory chosen by ordered probing (Android: app if app/src/main exists,
\* else android/app if android/app/src/main exists, else app; iOS: ios if it
\* exists, else the root, then its Runner subdirectory if present, then the
\* subdirectory named after the Xcode project if present), nothing else is
\* added to the project, and the directory exists afterwards.
C14_TargetDirectory ==
    [][(InstallSucceeds /\ targetPlatform \in {"Android", "iOS"}) =>
          LET dir == C14_Rule(targetPlatform, fs)
              file == dir \o <<ConfigFileName(targetPlatform)>>
          IN  /\ file \in DOMAIN fs'
              /\ fs'[file] = tmp[artifact]
              /\ dir = <<>> \/ Exists(fs', dir)
              /\ \A p \in DOMAIN fs' :
                    (p \notin DOMAIN fs \/ fs'[p] # fs[p]) => p \in {file, dir}]_vars

\* a run installed the file after both descents of iOS, and another made the
\* directory app that was missing
C14_Witness ==
    /\ Succeeded("install")
    /\ \/ /\ targetPlatform = "iOS"
          /\ <<"Runner", "MyApp", googleServiceInfoPlist>> \in DOMAIN fs
       \/ /\ targetPlatform = "Android"
          /\ <<"app", googleServicesJSON>> \in DOMAIN fs
          /\ <<"app">> \in DOMAIN fs
          /\ ~Exists(fs, <<"app", "src">>)

\* the listing of the Firebase CLI was fetched and holds a project with the
\* id whose state is ACTIVE
C15_ListedActive(id, b) ==
    /\ b.cli = "ok"
    /\ b.answer.kind = "parsed"
    /\ b.answer.status = "success"
    /\ \E i \in 1..Len(b.answer.result) :
          b.answer.result[i].ProjectID = id /\ b.answer.result[i].State = "ACTIVE"

\* an id no listing of the runs holds
C15_UnknownId == <<"unknown", "-", "project">>

\* C15: ValidateProject(id) returns no error exactly when the project
\* listing holds a project with that id in state ACTIVE; ListProjects never
\* returns a project in another state; the empty id and an unknown id yield
\* an error.  Stated of the function on every backend of a run, and of the
\* validate stage of the run.
C15_ValidateIffActive ==
    /\ \A id \in {IdMyProject, IdOther, IdMyAwesomeProject, EmptyProject,
                   C15_UnknownId} :
          (ValidateProject(id, backend.cli, backend.answer) = Nil)
              <=> C15_ListedActive(id, backend)
    /\ \A i \in 1..Len(ListProjects(backend.cli, backend.answer).projects) :
          ListProjects(backend.cli, backend.answer).projects[i].State = "ACTIVE"
    /\ ValidateProject(EmptyProject, backend.cli, backend.answer) # Nil
    /\ ValidateProject(C15_UnknownId, backend.cli, backend.answer) # Nil
    /\ \A k \in 1..Len(trace) :
          trace[k].stage = "validate" =>
              ((trace[k].err = Nil) <=> C15_ListedActive(projectID, backend))

\* a run asked for a project that the listing holds in a state other than
\* ACTIVE, and its validation failed
C15_Witness ==
    /\ Failed("validate")
    /\ \E i \in 1..Len(backend.answer.result) :
          /\ backend.answer.result[i].ProjectID = projectID
          /\ backend.answer.result[i].State # "ACTIVE"
    /\ backend.cli = "ok" /\ backend.answer.status = "success"

\* C16: the project is validated before the platform is resolved: when
\* ValidateProject rejects the project id, the run returns an error holding
\* "project validation failed", whatever the --platform flag (valid, invalid
\* or absent) and --auto-detect are, and no platform is resolved, no app is
\* registered, no file is downloaded, installed or changed.
C16_ValidationFirst ==
    /\ [](Failed("validate") =>
            /\ pc = "failed"
            /\ Len(runErr) > 0 /\ runErr[1] = "project validation failed: "
            /\ \A k \in 1..Len(trace) :
                  trace[k].stage \in {"preflight", "project", "validate"}
            /\ targetPlatform = "<none>" /\ config = NoConfig
            /\ registry = <<>> /\ log = <<>>
            /\ artifact = "" /\ snaps = <<>> /\ results = <<>> /\ printed = <<>>)
    /\ [][(pc \in {"preflight", "project", "validate"} \/ Failed("validate")) =>
              UNCHANGED <<fs, tmp, registry>>]_vars

\* a run with an invalid --platform flag, and one with none and no
\* auto-detection, ended with the validation error
C16_Witness ==
    /\ Failed("validate") /\ pc = "failed"
    /\ args.platformFlag = "invalid"
    /\ runErr[1] = "project validation failed: "

\* what runConfigure puts before the error of each stage
C17_Wrap ==
    "preflight" :> <<"dependency check failed: ">>
    @@ "project" :> <<>>
    @@ "validate" :> <<"project validation failed: ">>
    @@ "platform" :> <<>>
    @@ "register" :> <<"failed to register app with Firebase: ">>
    @@ "download" :> <<"failed to download configuration: ">>
    @@ "install" :> <<"failed to install configuration: ">>
    @@ "initialize" :> <<"failed to add initialization code: ">>

\* the six stages of the claim, in its order
C17_Order == <<"validate", "platform", "register", "download", "install", "initialize">>
C17_Position(stage) == CHOOSE k \in 1..Len(C17_Order) : C17_Order[k] = stage

\* C17: the stages of a run are validate, select platform, register,
\* download, install, add initialization code, in this order; a stage runs
\* only if every earlier stage succeeded; the run returns the error of the
\* first stage that failed, and no error when all succeeded.
C17_StagesInOrder ==
    LET claimed == SelectSeq(trace, LAMBDA e : e.stage \in {C17_Order[k] : k \in 1..6})
    IN  /\ \A i \in 1..Len(claimed) : claimed[i].stage = C17_Order[i]
        /\ \A i \in 1..Len(trace) : i < Len(trace) => trace[i].err = Nil
        /\ \A i \in 1..Len(trace) :
              trace[i].err # Nil =>
                  /\ pc = "failed"
                  /\ runErr = C17_Wrap[trace[i].stage] \o trace[i].err
        /\ pc = "done" <=> (Len(claimed) = 6 /\ \A i \in 1..6 : claimed[i].err = Nil)
        /\ pc = "done" => runErr = Nil

\* one run went through all six stages, and another stopped at a failed
\* install after a successful download
C17_Witness ==
    \/ pc = "done" /\ Succeeded("initialize") /\ targetPlatform = "Android"
    \/ pc = "failed" /\ Failed("install") /\ Succeeded("download")

(* Claims about resuming the source mutator. *)
\* the entry point the mutator works on, and the lifecycle anchor it
\* recognizes in it
C18_EntryPoint(platformName, f) ==
    IF platformName = "Android"
    THEN firstFound(findFile(f, "MainActivity.java"), findFile(f, "MainActivity.kt"))
    ELSE findAppDelegate(f)
C18_Anchor(p) ==
    IF Base(p) = "MainActivity.java" THEN SuperCall \o <<";">>
    ELSE IF Base(p) = "MainActivity.kt" THEN SuperCall
    ELSE IF Base(p) = "AppDelegate.swift" THEN swiftMethod
    ELSE objcMethod

\* the dependency files of the project and the marker of their declaration
C18_DependencyFile(platformName, f) ==
    IF platformName = "Android" THEN findBuildGradle(f) ELSE findPodfile(f)
C18_DependencyFiles(platformName, f) ==
    ({C18_DependencyFile(platformName, f)}
        \cup (IF platformName = "Android" THEN {findProjectBuildGradle(f)} ELSE {}))
    \ {NoPath}
C18_Marker(platformName) ==
    IF platformName = "Android" THEN <<"google-services">> ELSE <<"Firebase/Core">>

\* the intermediate state: the dependency declaration is present, the entry
\* point holds the anchor and no initialization call
C18_Intermediate(platformName, f) ==
    /\ C18_DependencyFile(platformName, f) # NoPath
    /\ Contains(f[C18_DependencyFile(platformName, f)], C18_Marker(platformName))
    /\ C18_EntryPoint(platformName, f) # NoPath
    /\ Contains(f[C18_EntryPoint(platformName, f)],
                C18_Anchor(C18_EntryPoint(platformName, f)))
    /\ Calls(f, C18_EntryPoint(platformName, f)) = 0

\* C18: the patches resume: from a directory whose dependency file (the
\* app-level build.gradle, the Podfile) holds the declaration and whose entry
\* point holds the recognized lifecycle anchor and no initialization call,
\* the next run of the source mutator inserts the call into the entry point
\* and leaves every dependency file that holds its declaration unchanged.
C18_Resumes ==
    \A i \in 1..Len(results) :
        C18_Intermediate(targetPlatform, snaps[i]) =>
            /\ Calls(snaps[i + 1], C18_EntryPoint(targetPlatform, snaps[i])) = 1
            /\ \A d \in C18_DependencyFiles(targetPlatform, snaps[i]) :
                  Contains(snaps[i][d], C18_Marker(targetPlatform)) =>
                      snaps[i + 1][d] = snaps[i][d]
            /\ results[i] \in {Nil, ErrPodInstall}

\* a run started from the intermediate state of an iOS project and put the
\* call into the AppDelegate
C18_Witness ==
    /\ targetPlatform = "iOS"
    /\ Len(snaps) >= 2
    /\ C18_Intermediate("iOS", snaps[1])
    /\ snaps[2][C18_EntryPoint("iOS", snaps[1])] # snaps[1][C18_EntryPoint("iOS", snaps[1])]
    /\ snaps[2][findPodfile(snaps[1])] = snaps[1][findPodfile(snaps[1])]

(* Claims about the calls RegisterApp makes. *)
\* C19: a failure of the app listing during reconciliation is fatal: the
\* call of RegisterApp whose first apps:list fails returns an error and
\* does not invoke apps:create.
C19_ListingFailureIsFatal ==
    \A i \in 1..Len(log) :
        log[i].listing1 = "fail" =>
            /\ log[i].result # Nil
            /\ log[i].createCalls = 0
            /\ log[i].created = NoApp

\* the output of apps:create holds one of the duplicate phrases, in any case
C20_Duplicate(output) ==
    \E phrase \in {<<"already exists">>, <<"duplicate">>,
                   <<"bundle id ", "already exists">>, <<"package name ", "already exists">>,
                   <<"bundle id for ios app cannot be empty">>,
                   <<"failed to create ios app">>, <<"failed to create android app">>} :
        Contains(ToLower(output), phrase)

\* the number of apps:list calls of a RegisterApp call
C20_Listings(obs) ==
    (IF obs.listing1 = "none" THEN 0 ELSE 1) + (IF obs.listing2 = "none" THEN 0 ELSE 1)

\* C20: in one call of RegisterApp apps:create is invoked at most once and
\* apps:list at most twice; the second listing happens only after a creation
\* that failed with an output classified as duplicate; when creation fails
\* with an output that holds no duplicate phrase, RegisterApp returns the
\* creation error without a second listing and leaves AppID empty.
C20_OneCreateTwoListings ==
    \A i \in 1..Len(log) :
        /\ log[i].createCalls <= 1
        /\ C20_Listings(log[i]) <= 2
        /\ log[i].listing2 # "none" =>
              /\ log[i].createCalls = 1
              /\ log[i].created = NoApp
              /\ C20_Duplicate(log[i].createOut)
        /\ (log[i].createCalls = 1 /\ log[i].created = NoApp
              /\ ~C20_Duplicate(log[i].createOut)) =>
              /\ log[i].result = <<"failed to create Firebase app: ">> \o log[i].createOut
              /\ log[i].listing2 = "none"
              /\ log[i].appID = <<>>

\* a call whose creation was refused for another reason than a duplicate
\* while the registry held a matching app that the failed first listing did
\* not deliver
C20_Witness ==
    \E i \in 1..Len(log) :
        /\ log[i].createCalls = 1 /\ log[i].created = NoApp
        /\ ~C20_Duplicate(log[i].createOut)
        /\ log[i].listing1 = "fail"
        /\ findExistingAppByIdentifier(fs, flags, registry) # NoApp

(* Claims about the dependency patches. *)
\* a line of a Podfile that opens a target block
C21_TargetLine(line) == Contains(line, <<"target">>) /\ Contains(line, <<"do">>)

\* the dependency files a run on the directory f patches: the path, the
\* kind of the patch, its marker, its anchor, and whether the file holds the
\* anchor.  A root build.gradle that is both the app-level and the
\* project-level file is listed once, as the app-level file.
C21_Files(platformName, f) ==
    IF platformName = "Android"
    THEN IF findBuildGradle(f) = NoPath THEN {}
         ELSE {[path |-> findBuildGradle(f), kind |-> "app",
                marker |-> <<"google-services">>, anchor |-> <<"plugins {">>,
                anchored |-> Contains(f[findBuildGradle(f)], <<"plugins {">>)]}
              \cup (IF findProjectBuildGradle(f) \in {NoPath, findBuildGradle(f)} THEN {}
                    ELSE {[path |-> findProjectBuildGradle(f), kind |-> "project",
                           marker |-> <<"google-services">>, anchor |-> <<"dependencies {">>,
                           anchored |-> Contains(f[findProjectBuildGradle(f)],
                                                 <<"dependencies {">>)]})
    ELSE IF findPodfile(f) = NoPath THEN {}
         ELSE {[path |-> findPodfile(f), kind |-> "pods",
                marker |-> <<"Firebase/Core">>, anchor |-> <<"target">>,
                anchored |-> \E k \in 1..Len(Split(f[findPodfile(f)])) :
                                 C21_TargetLine(Split(f[findPodfile(f)])[k])]}

\* C21: after a run every dependency file holds its marker, whether the
\* declaration went after the anchor or, without an anchor, on top of the
\* file, and the next run leaves the file as it is.
C21_MarkerAlwaysPresent ==
    \A i \in 1..Len(results) :
        \A d \in C21_Files(targetPlatform, snaps[i]) :
            /\ Contains(snaps[i + 1][d.path], d.marker)
            /\ i < Len(results) => snaps[i + 2][d.path] = snaps[i + 1][d.path]

\* new is old with a declaration that holds the marker put right after the
\* first anchor of a build.gradle
C21_AfterFirstAnchor(old, new, anchor, marker) ==
    LET k == Index(old, anchor) + Len(anchor)
        n == Len(new) - Len(old)
    IN  /\ Index(old, anchor) # -1
        /\ n > 0
        /\ SubSeq(new, 1, k) = SubSeq(old, 1, k)
        /\ SubSeq(new, k + n + 1, Len(new)) = SubSeq(old, k + 1, Len(old))
        /\ Contains(SubSeq(new, k + 1, k + n), marker)

\* new is the Podfile old with the pod lines put after every target line
C21_AfterTargetLines(old, new) ==
    LET isPod(line) == \/ Contains(line, <<"pod '", "Firebase/Core">>)
                       \/ Contains(line, <<"pod '", "Firebase/Analytics">>)
    IN  /\ SelectSeq(Split(new), LAMBDA line : ~isPod(line)) = Split(old)
        /\ \A k \in 1..Len(Split(new)) :
              C21_TargetLine(Split(new)[k]) =>
                  /\ k < Len(Split(new))
                  /\ Contains(Split(new)[k + 1], <<"Firebase/Core">>)
        /\ \A k \in 2..Len(Split(new)) :
              Contains(Split(new)[k], <<"Firebase/Core">>) =>
                  C21_TargetLine(Split(new)[k - 1])

\* what a patch made of a file that did not hold the marker
C21_Patched(d, old, new) ==
    IF d.anchored
    THEN IF d.kind = "pods" THEN C21_AfterTargetLines(old, new)
         ELSE C21_AfterFirstAnchor(old, new, d.anchor, d.marker)
    ELSE IF d.kind = "app"
    THEN /\ Len(new) > Len(old)
         /\ SubSeq(new, Len(new) - Len(old) + 1, Len(new)) = old
         /\ Contains(SubSeq(new, 1, Len(new) - Len(old)), d.marker)
    ELSE new = old

\* C21 (amended): when the marker is absent, each dependency patch inserts
\* the declaration after the structural anchor; when no anchor is found, the
\* app-level build.gradle patch puts a standalone declaration on top of the
\* file and the project-level build.gradle and Podfile patches leave the
\* file unchanged.  After the patch the marker is present whenever the
\* anchor was found or the file is the app-level build.gradle, and in every
\* case the next run leaves the file as it is.
C21_MarkerWhereAnchored ==
    \A i \in 1..Len(results) :
        \A d \in C21_Files(targetPlatform, snaps[i]) :
            /\ IF Contains(snaps[i][d.path], d.marker)
               THEN snaps[i + 1][d.path] = snaps[i][d.path]
               ELSE C21_Patched(d, snaps[i][d.path], snaps[i + 1][d.path])
            /\ (d.anchored \/ d.kind = "app") => Contains(snaps[i + 1][d.path], d.marker)
            /\ i < Len(results) => snaps[i + 2][d.path] = snaps[i + 1][d.path]

\* a run put the declaration on top of an app-level build.gradle without a
\* plugins block and left a project-level build.gradle without a
\* dependencies block as it was, without the marker
C21_Witness ==
    /\ targetPlatform = "Android" /\ Len(snaps) >= 3
    /\ \E a, q \in C21_Files("Android", snaps[1]) :
          /\ a.kind = "app" /\ ~a.anchored /\ ~Contains(snaps[1][a.path], a.marker)
          /\ Contains(snaps[2][a.path], a.marker)
          /\ q.kind = "project" /\ ~q.anchored
          /\ ~Contains(snaps[2][q.path], q.marker)
          /\ snaps[3] = snaps[2]

(* Claims about identifier parsing. *)
\* the candidate files of the platform of the Config, in their listed
\* order, with what the extractor of each returns
C22_Candidates ==
    IF config.Platform = "Android"
    THEN [i \in 1..3 |-> extractPackageNameFromBuildGradle(fs, buildGradleFiles[i])]
         \o [i \in 1..3 |-> extractPackageNameFromManifest(fs, manifestFiles[i])]
    ELSE [i \in 1..3 |-> extractBundleIDFromInfoPlist(fs, infoPlistFiles[i])]
         \o <<extractBundleIDFromPbxproj(fs, pbxprojFiles[1]),
              extractBundleIDFromPbxproj(fs, iosPbxprojFiles[1])>>

\* a value that still holds a variable token
C22_Templated(value) == Contains(value, <<"$">>)

\* C22: no extractor returns a value that still holds a variable token, and
\* the identifier parsed from the project is the value of the first
\* candidate file, in the listed order, that yields one.
C22_PlaceholdersRejected ==
    (resolved # NotResolved /\ config.Platform \in {"Android", "iOS", "macOS"}
        /\ C6_Explicit = <<>>) =>
        /\ \A i \in 1..Len(C22_Candidates) : ~C22_Templated(C22_Candidates[i])
        /\ ~C22_Templated(resolved.expected)
        /\ LET found == {i \in 1..Len(C22_Candidates) : C22_Candidates[i] # <<>>}
           IN  resolved.expected =
                   IF found = {} THEN C6_Generated
                   ELSE C22_Candidates[CHOOSE i \in found : \A j \in found : i <= j]

(* Claims about the import of the backend module. *)
\* the import statement the initialization patch adds to an entry point
C23_Import(p) ==
    IF Base(p) = "MainActivity.java" THEN <<"import com.google.firebase.FirebaseApp", ";">>
    ELSE IF Base(p) = "MainActivity.kt" THEN <<"import com.google.firebase.FirebaseApp">>
    ELSE IF Base(p) = "AppDelegate.swift" THEN <<"import Firebase", "Core">>
    ELSE <<"@import FirebaseCore;">>

\* the content imports no module of the backend
C23_LacksImport(p, content) ==
    IF Base(p) \in {"MainActivity.java", "MainActivity.kt"}
    THEN ~Contains(content, <<"import com.google.firebase.FirebaseApp">>)
    ELSE IF Base(p) = "AppDelegate.swift" THEN ~Contains(content, <<"import Firebase">>)
    ELSE \A imp \in {"@import Firebase;", "@import FirebaseCore;",
                     "#import <Firebase/Firebase.h>",
                     "#import <FirebaseCore/FirebaseCore.h>"} : ~Contains(content, <<imp>>)

\* the content holds the import statement as a line of its own
C23_Intact(p, content) ==
    \E k \in 1..Len(Split(content)) : TrimSpace(Split(content)[k]) = C23_Import(p)

\* the run reaches the initialization patch of the entry point of f
C23_PatchRuns(platformName, f) ==
    /\ C18_EntryPoint(platformName, f) # NoPath
    /\ IF platformName = "Android" THEN findBuildGradle(f) # NoPath
       ELSE ~Prompted(f) \/ response = "yes"

\* C23: when the initialization patch runs on an entry point that holds
\* neither the initialization call nor an import of the backend module, the
\* file it writes holds the import statement intact, in Java, Kotlin, Swift
\* and Objective-C, whatever FirebaseAppDelegateProxyEnabled is.
C23_ImportIntact ==
    \A i \in 1..Len(results) :
        LET p == C18_EntryPoint(targetPlatform, snaps[i])
        IN  (/\ C23_PatchRuns(targetPlatform, snaps[i])
             /\ Calls(snaps[i], p) = 0
             /\ C23_LacksImport(p, snaps[i][p])) =>
                C23_Intact(p, snaps[i + 1][p])


(***************************************************************************)
(* Claims about failing writes during source mutation.                     *)
(***************************************************************************)
\* the directory a run on f leaves when every write succeeds
C24_Unhindered(platformName, f) ==
    IF platformName = "Android" THEN AndroidAddInitializationCode(f).fs
    ELSE IOSAddInitializationCode(f, response, "installed").fs

\* the run that left snaps[i + 1] could not write a file it had to change
C24_WriteFailed(i) ==
    \E p \in unwritable :
        /\ p \in DOMAIN C24_Unhindered(targetPlatform, snaps[i])
        /\ p \in DOMAIN snaps[i]
        /\ C24_Unhindered(targetPlatform, snaps[i])[p] # snaps[i][p]

C24_Rank(platformName, f, p) ==
    IF platformName = "Android"
    THEN IF p = findBuildGradle(f) THEN 1
         ELSE IF p = findProjectBuildGradle(f) THEN 2 ELSE 3
    ELSE IF p = findPodfile(f) THEN 1 ELSE 2

\* the place of the file whose write returned the error err, 0 for any
\* other error
C24_FailedRank(err) ==
    IF err \in {ErrUpdateBuildGradle, ErrUpdatePodfile} THEN 1
    ELSE IF err = ErrUpdateProjectBuildGradle THEN 2
    ELSE IF err = ErrUpdateMainActivity THEN 3
    ELSE 0

C25_Matches(f, pattern) ==
    {i \in 1..Len(WalkOrder) : Exists(f, WalkOrder[i]) /\ Match(pattern, Base(WalkOrder[i]))}

\* the first match in the order of the walk, NoPath when nothing matches
C25_FirstMatch(f, pattern) ==
    IF C25_Matches(f, pattern) = {} THEN NoPath
    ELSE WalkOrder[CHOOSE i \in C25_Matches(f, pattern) :
                       \A j \in C25_Matches(f, pattern) : i <= j]

\* C25: findFile returns the first match in the order of the walk, whether
\* the matches are in the same directory or in different ones, and the
\* empty path exactly when nothing matches.
C25_FirstMatchReturned ==
    \A pattern \in DOMAIN GlobTable : findFile(fs, pattern) = C25_FirstMatch(fs, pattern)


(***************************************************************************)
(* Claims about the two Gradle declarations.                               *)
(***************************************************************************)
\* the content applies the google-services plugin
C26_HasPlugin(contentStr) ==
    \/ Contains(contentStr, <<"id 'com.google.gms.", "google-services", "'">>)
    \/ Contains(contentStr, <<"apply plugin: 'com.google.gms.", "google-services", "'">>)

\* the content declares the google-services classpath
C26_HasClasspath(contentStr) ==
    Contains(contentStr, <<"classpath 'com.google.gms:", "google-services", ":4.3.15'">>)

\* the project-level build file of f holds "dependencies {" and neither it
\* nor the app-level build file mentions google-services
C26_Fresh(f) ==
    /\ findBuildGradle(f) # NoPath
    /\ findProjectBuildGradle(f) # NoPath
    /\ Contains(f[findProjectBuildGradle(f)], <<"dependencies {">>)
    /\ ~Contains(f[findProjectBuildGradle(f)], <<"google-services">>)
    /\ ~Contains(f[findBuildGradle(f)], <<"google-services">>)

\* C26: after one run of the Android mutator on a project whose project-level
\* build.gradle holds "dependencies {" and no google-services reference, the
\* plugin application and the classpath declaration are both present, also
\* when the app-level and the project-level file are the same root
\* build.gradle.
C26_PluginAndClasspath ==
    \A i \in 1..Len(results) :
        (targetPlatform = "Android" /\ C26_Fresh(snaps[i])) =>
            /\ C26_HasPlugin(snaps[i + 1][findBuildGradle(snaps[i])])
            /\ C26_HasClasspath(snaps[i + 1][findProjectBuildGradle(snaps[i])])


(***************************************************************************)
(* Claims about the app id after registration.                             *)
(***************************************************************************)
\* C27: whenever RegisterApp returns success the Config holds a non-empty
\* app id, on every path (explicit id, existing app reused, app created,
\* duplicate recovered), so a DownloadConfig that follows never fails with
\* "app ID is required".
C27_SuccessLeavesAppID ==
    /\ \A i \in 1..Len(log) : log[i].result = Nil => log[i].appID # <<>>
    /\ (Len(log) > 0 /\ log[Len(log)].result = Nil) =>
          /\ config.AppID = log[Len(log)].appID
          /\ \A sdk \in BOOLEAN : DownloadConfig(config, "", <<>>, sdk).err # ErrNoAppID

\* a call created an app and took its id from the output of apps:create,
\* after a call whose apps:create printed no id and returned an error
C27_Witness ==
    /\ Len(log) = 2
    /\ log[1].createOut = CreateOutput("no id", <<>>)
    /\ log[1].result = ErrExtract
    /\ log[2].result = Nil
    /\ log[2].createCalls = 1
    /\ log[2].created # NoApp
    /\ log[2].appID = log[2].created.AppID
    /\ config.AppID # <<>>


(***************************************************************************)
(* Claims about the dependency-manager command.                            *)
(***************************************************************************)
\* what a run on f returns when the dependency-manager command succeeds
C28_ManagerWorks(platformName, f) ==
    IF platformName = "Android" THEN AndroidAddInitializationCode(f).err
    ELSE IOSAddInitializationCode(f, response, "installed").err

\* C28: a failing or missing dependency-manager command (Gradle sync, pod
\* install) never turns a run into a failure: the run returns what it returns
\* when the command succeeds, so success whenever the file patches
\* succeeded, and the files are left patched.
C28_ManagerFailureNotFatal ==
    \A i \in 1..Len(results) :
        /\ results[i] = C28_ManagerWorks(targetPlatform, snaps[i])
        /\ snaps[i + 1] = C24_Unhindered(targetPlatform, snaps[i])


(***************************************************************************)
(* Claims about the Spinner.                                               *)
(***************************************************************************)
\* the animation goroutines that have not returned
C29_Live == {g \in 1..Len(routines) : routines[g] \in {"select", "lock", "sleep"}}

\* C29: for any sequence of Start and Stop calls on one Spinner, from any
\* threads, the stop channel is closed at most once, no call panics, and at
\* most one animation goroutine is live.
C29_SafeStartStop ==
    /\ ~spinner.panicked
    /\ spinner.closes <= 1
    /\ Cardinality(C29_Live) <= 1


\* every animation goroutine has returned, or ended with the process
C30_AllReturned == \A g \in 1..Len(routines) : routines[g] \in {"done", "dead"}

\* C30: once Stop has returned no frame is printed (until a Start sets the
\* spinner going again) and the animation goroutines eventually return;
\* ShowLoader calls its callback exactly once, has stopped the spinner when
\* it prints the outcome, and returns the error of the callback unchanged.
C30_StopSilences ==
    /\ [](~screen.late)
    /\ [](spinner.closed => <>C30_AllReturned)
    /\ [](loader.calls <= 1)
    /\ [](loader.pc = "returned" =>
            /\ loader.calls = 1
            /\ loader.result = loader.err
            /\ screen.outcome = (IF loader.err = Nil THEN "Complete!" ELSE "Failed")
            /\ screen.quiet
            /\ ~spinner.active)

\* ShowLoader returned the error of its callback after the spinner had
\* printed frames, and the goroutine has returned
C30_Witness ==
    /\ loader.pc = "returned"
    /\ loader.result = ErrCallback
    /\ screen.frames > 0
    /\ routines = <<"done">>

====
